---- MODULE Spec2Model ----
(***************************************************************************)
(* A model of the 6502 instruction execution engine of emu6502:            *)
(*   src/src/cpu.rs          CPU, StatusFlag, reset, interrupt, step       *)
(*   src/src/instruction.rs  AddressingMode, OpCode::execute, OPCODES      *)
(*   src/src/ram.rs          RAM                                           *)
(* The processor state is the record cpu, the bus contents the function    *)
(* ram.  A call of reset, interrupt or step is one action; the helpers the *)
(* calls use are operators over a machine record m = [cpu, ram, log, paid, *)
(* ret, panic] that is threaded through them in the order the code runs:   *)
(* m.ret is the value the helper returns, m.log the bus accesses made so   *)
(* far in the call, m.paid the positions in m.log of the accesses that     *)
(* were made through a method of CPU that adds their cycle to              *)
(* remain_cycles, m.panic whether the call has panicked.                   *)
(***************************************************************************)
EXTENDS Integers, Sequences, FiniteSets, TLC

VARIABLES
    cpu,        \* struct CPU (cpu.rs:7-19)
    ram,        \* RAM.inner (ram.rs:4-6), kept as the set of its non-zero cells
    panicked,   \* a panic!() has ended the program
    log,        \* history: the bus accesses of the last call, in order
    call,       \* history: the last call, [op, kind]
    pre,        \* history: cpu and ram as they were when the last call began
    disp,       \* history: the cycles charged by the last dispatched
                \* instruction and the step calls made since
    nsteps,     \* history: number of step calls made
    nevents,    \* history: number of reset and interrupt calls made
    entry       \* history: the last interrupt call that was not a masked
                \* IRQ: its kind, the processor when it began, and nsteps
                \* and nevents when it returned

vars == <<cpu, ram, panicked, log, call, pre, disp, nsteps, nevents, entry>>

(***************************************************************************)
(* Bounds of the exploration.                                              *)
(***************************************************************************)
MaxSteps == 10
MaxEvents == 2

(***************************************************************************)
(* u8 / u16 arithmetic.                                                    *)
(***************************************************************************)
U8 == 256
U16 == 65536

B2N(b) == IF b THEN 1 ELSE 0

\* (byte >> i & 1)
Bit(byte, i) == (byte \div (2 ^ i)) % 2

\* a bitwise operation on u8, from its truth table tt[1 + 2 * bit of p + bit of q]
BitOp(p, q, tt) ==
    LET f[i \in 0..8] ==
            IF i = 8 THEN 0
            ELSE tt[1 + 2 * Bit(p, i) + Bit(q, i)] * (2 ^ i) + f[i + 1]
    IN  f[0]

\* p & q, p | q, p ^ q
BitAnd(p, q) == BitOp(p, q, <<0, 0, 0, 1>>)

BitOr(p, q) == BitOp(p, q, <<0, 1, 1, 1>>)

BitXor(p, q) == BitOp(p, q, <<0, 1, 1, 0>>)

\* the byte taken as an unsigned offset
AsI8_unsigned(byte) == byte

\* (byte as i8) as i32
AsI8(byte) == IF byte >= 128 THEN byte - 256 ELSE byte

\* pc & 0xFF00
Page(addr) == (addr \div 256) * 256

(***************************************************************************)
(* The bus: RAM.                                                           *)
(***************************************************************************)
\* RAM::default(): inner: [0; MAX_MEMORY]
RAM_default == [addr \in {} |-> 0]

ram_cell(r, addr) == IF addr \in DOMAIN r THEN r[addr] ELSE 0

ram_store(r, addr, byte) ==
    IF byte = 0
    THEN [x \in (DOMAIN r) \ {addr} |-> r[x]]
    ELSE [x \in (DOMAIN r) \cup {addr} |-> IF x = addr THEN byte ELSE r[x]]

\* ram.read_byte(address)
ram_read_byte(m, addr) ==
    LET byte == ram_cell(m.ram, addr)
    IN  [m EXCEPT !.log = Append(@, <<"r", addr, byte>>), !.ret = byte]

\* ram.write_byte(address, byte)
ram_write_byte(m, addr, byte) ==
    [m EXCEPT !.ram = ram_store(@, addr, byte),
              !.log = Append(@, <<"w", addr, byte>>)]

\* ram.reset(): the bus's reset hook.  The bus keeps what was loaded into it.
Reset_reset(r) == r

\* load bytes at consecutive addresses (a test's ram[addr] = byte lines)
Load(r, addr, bytes) ==
    LET span == addr..(addr + Len(bytes) - 1)
        set == {x \in span : bytes[x - addr + 1] # 0}
    IN  [x \in ((DOMAIN r) \ span) \cup set |->
            IF x \in span THEN bytes[x - addr + 1] ELSE r[x]]

(***************************************************************************)
(* StatusFlag and CPU.                                                     *)
(***************************************************************************)
StatusFlag_default ==
    [c |-> FALSE, z |-> FALSE, i |-> FALSE, d |-> FALSE,
     b |-> FALSE, r |-> TRUE, v |-> FALSE, n |-> FALSE]

\* #[derive(Default)] on CPU: every integer field 0, flags StatusFlag::default()
CPU_default ==
    [pc |-> 0, sp |-> 0, a |-> 0, x |-> 0, y |-> 0,
     flags |-> StatusFlag_default, remain_cycles |-> 0, total_cycles |-> 0]

\* get_as_u8 with V packed at bit 7 and N at bit 6
get_as_u8_swaps_v_n(f) ==
    B2N(f.c) + B2N(f.z) * 2 + B2N(f.i) * 4 + B2N(f.d) * 8
    + B2N(f.b) * 16 + B2N(f.r) * 32 + B2N(f.n) * 64 + B2N(f.v) * 128

get_as_u8(f) ==
    B2N(f.c) + B2N(f.z) * 2 + B2N(f.i) * 4 + B2N(f.d) * 8
    + B2N(f.b) * 16 + B2N(f.r) * 32 + B2N(f.v) * 64 + B2N(f.n) * 128

\* set_as_u8 that takes R from bit 5 of the byte
set_as_u8_reads_r(f, byte) ==
    [c |-> Bit(byte, 0) = 1, z |-> Bit(byte, 1) = 1, i |-> Bit(byte, 2) = 1,
     d |-> Bit(byte, 3) = 1, b |-> Bit(byte, 4) = 1, r |-> Bit(byte, 5) = 1,
     v |-> Bit(byte, 6) = 1, n |-> Bit(byte, 7) = 1]

set_as_u8(f, byte) ==
    [c |-> Bit(byte, 0) = 1, z |-> Bit(byte, 1) = 1, i |-> Bit(byte, 2) = 1,
     d |-> Bit(byte, 3) = 1, b |-> Bit(byte, 4) = 1, r |-> TRUE,
     v |-> Bit(byte, 6) = 1, n |-> Bit(byte, 7) = 1]

Machine(c, r) ==
    [cpu |-> c, ram |-> r, log |-> <<>>, paid |-> <<>>, ret |-> 0, panic |-> FALSE]

fetch_byte(m) ==
    LET m1 == ram_read_byte(m, m.cpu.pc)
    IN  [m1 EXCEPT !.cpu.pc = (@ + 1) % U16, !.cpu.remain_cycles = @ + 1,
                   !.paid = Append(@, Len(m1.log))]

read_byte(m, addr) ==
    LET m1 == ram_read_byte(m, addr)
    IN  [m1 EXCEPT !.cpu.remain_cycles = @ + 1, !.paid = Append(@, Len(m1.log))]

write_byte(m, addr, byte) ==
    LET m1 == ram_write_byte(m, addr, byte)
    IN  [m1 EXCEPT !.cpu.remain_cycles = @ + 1, !.paid = Append(@, Len(m1.log))]

\* push that charges the write only
push_to_stack_one_cycle(m, byte) ==
    LET m1 == write_byte(m, 256 + m.cpu.sp, byte)
    IN  [m1 EXCEPT !.cpu.sp = (@ + U8 - 1) % U8]

\* push that decrements SP before it writes
push_to_stack_decrements_first(m, byte) ==
    LET m1 == [m EXCEPT !.cpu.sp = (@ + U8 - 1) % U8]
        m2 == write_byte(m1, 256 + m1.cpu.sp, byte)
    IN  [m2 EXCEPT !.cpu.remain_cycles = @ + 1]

push_to_stack(m, byte) ==
    LET m1 == write_byte(m, 256 + m.cpu.sp, byte)
    IN  [m1 EXCEPT !.cpu.sp = (@ + U8 - 1) % U8, !.cpu.remain_cycles = @ + 1]

pull_from_stack(m) ==
    LET m1 == [m EXCEPT !.cpu.sp = (@ + 1) % U8]
        m2 == read_byte(m1, 256 + m1.cpu.sp)
    IN  [m2 EXCEPT !.cpu.remain_cycles = @ + 1]

\* flags with N taken from bit 6 of the byte
set_zero_and_negative_flag_bit6(m, byte) ==
    [m EXCEPT !.cpu.flags.z = (byte = 0), !.cpu.flags.n = (Bit(byte, 6) = 1)]

set_zero_and_negative_flag(m, byte) ==
    [m EXCEPT !.cpu.flags.z = (byte = 0), !.cpu.flags.n = (Bit(byte, 7) = 1)]

set_accumulator(m, byte) ==
    set_zero_and_negative_flag([m EXCEPT !.cpu.a = byte], byte)

set_index_x(m, byte) ==
    set_zero_and_negative_flag([m EXCEPT !.cpu.x = byte], byte)

set_index_y(m, byte) ==
    set_zero_and_negative_flag([m EXCEPT !.cpu.y = byte], byte)

\* the vector each interrupt kind loads PC from
InterruptKinds == {"NMI", "Reset", "IRQ", "BRK"}

interrupt_vector(kind) ==
    CASE kind = "NMI" -> 65530
      [] kind = "Reset" -> 65532
      [] kind = "IRQ" -> 65534
      [] kind = "BRK" -> 65534

\* let addr_low = fetch_byte; let addr_high = fetch_byte;
\* pc = ((addr_high as u16) << 8) + (addr_low as u16)
load_pc_from(m, vector) ==
    LET m1 == fetch_byte([m EXCEPT !.cpu.pc = vector])
        addr_low == m1.ret
        m2 == fetch_byte(m1)
        addr_high == m2.ret
    IN  [m2 EXCEPT !.cpu.pc = addr_high * 256 + addr_low]

\* reset that leaves the accumulator alone
reset_keeps_accumulator(m) ==
    LET m1 == [m EXCEPT !.cpu.sp = 255,
                        !.cpu.flags.c = FALSE, !.cpu.flags.z = FALSE,
                        !.cpu.flags.i = FALSE, !.cpu.flags.d = FALSE,
                        !.cpu.flags.b = FALSE, !.cpu.flags.v = FALSE,
                        !.cpu.flags.n = FALSE,
                        !.cpu.x = 0, !.cpu.y = 0]
        m2 == load_pc_from(m1, 65532)
    IN  [m2 EXCEPT !.ram = Reset_reset(@)]

reset(m) ==
    LET m1 == [m EXCEPT !.cpu.sp = 255,
                        !.cpu.flags.c = FALSE, !.cpu.flags.z = FALSE,
                        !.cpu.flags.i = FALSE, !.cpu.flags.d = FALSE,
                        !.cpu.flags.b = FALSE, !.cpu.flags.v = FALSE,
                        !.cpu.flags.n = FALSE,
                        !.cpu.a = 0, !.cpu.x = 0, !.cpu.y = 0]
        m2 == load_pc_from(m1, 65532)
    IN  [m2 EXCEPT !.ram = Reset_reset(@)]

\* the pushes with PC low pushed before PC high
interrupt_push_low_first(m, kind) ==
    LET m1 == [m EXCEPT !.cpu.flags.b = IF kind # "BRK" THEN FALSE ELSE @,
                        !.cpu.flags.r = TRUE]
        m2 == push_to_stack(m1, m1.cpu.pc % 256)
        m3 == push_to_stack(m2, m2.cpu.pc \div 256)
        flag_status == get_as_u8(m3.cpu.flags)
        m4 == push_to_stack(m3, flag_status)
    IN  [m4 EXCEPT !.cpu.flags.i = TRUE]

\* the pushes of interrupt (kind != Reset)
interrupt_push(m, kind) ==
    LET m1 == [m EXCEPT !.cpu.flags.b = IF kind # "BRK" THEN FALSE ELSE @,
                        !.cpu.flags.r = TRUE]
        m2 == push_to_stack(m1, m1.cpu.pc \div 256)
        m3 == push_to_stack(m2, m2.cpu.pc % 256)
        flag_status == get_as_u8(m3.cpu.flags)
        m4 == push_to_stack(m3, flag_status)
    IN  [m4 EXCEPT !.cpu.flags.i = TRUE]

\* interrupt without the early return for a masked IRQ
interrupt_ignores_mask(m, kind) ==
    LET m1 == IF kind # "Reset" THEN interrupt_push(m, kind) ELSE m
    IN  load_pc_from(m1, interrupt_vector(kind))

interrupt(m, kind) ==
    IF kind = "IRQ" /\ m.cpu.flags.i
    THEN m
    ELSE LET m1 == IF kind # "Reset" THEN interrupt_push(m, kind) ELSE m
         IN  load_pc_from(m1, interrupt_vector(kind))

(***************************************************************************)
(* Addressing modes.  An evaluator returns the machine after its bus       *)
(* accesses, with the operand byte or the effective address in ret.        *)
(***************************************************************************)
\* cpu.fetch_byte(ram) as u16 + ((cpu.fetch_byte(ram) as u16) << 8)
fetch_word(m) ==
    LET m1 == fetch_byte(m)
        m2 == fetch_byte(m1)
    IN  [m2 EXCEPT !.ret = m1.ret + m2.ret * 256]

\* read_word that takes the high byte from p and the low byte from q
read_word_swapped(m, p, q) ==
    LET m1 == read_byte(m, p)
        m2 == read_byte(m1, q)
    IN  [m2 EXCEPT !.ret = m1.ret * 256 + m2.ret]

\* read_byte(p) as u16 + ((read_byte(q) as u16) << 8)
read_word(m, p, q) ==
    LET m1 == read_byte(m, p)
        m2 == read_byte(m1, q)
    IN  [m2 EXCEPT !.ret = m1.ret + m2.ret * 256]

\* get_address whose zero-page index additions carry into page one
get_address_zero_page_carries(mode, m) ==
    CASE mode = "ZeroPage" -> fetch_byte(m)
      [] mode = "ZeroPageX" ->
            LET m1 == fetch_byte([m EXCEPT !.cpu.remain_cycles = @ + 1])
            IN  [m1 EXCEPT !.ret = m1.ret + m1.cpu.x]
      [] mode = "ZeroPageY" ->
            LET m1 == fetch_byte([m EXCEPT !.cpu.remain_cycles = @ + 1])
            IN  [m1 EXCEPT !.ret = m1.ret + m1.cpu.y]
      [] mode = "Relative" ->
            LET m1 == fetch_byte(m)
            IN  [m1 EXCEPT !.ret = (AsI8(m1.ret) + m1.cpu.pc) % U16]
      [] mode = "Absolute" -> fetch_word(m)
      [] mode = "AbsoluteX" ->
            LET m1 == fetch_word(m)
            IN  [m1 EXCEPT !.ret = (m1.ret + m1.cpu.x) % U16]
      [] mode = "AbsoluteY" ->
            LET m1 == fetch_word(m)
            IN  [m1 EXCEPT !.ret = (m1.ret + m1.cpu.y) % U16]
      [] mode = "Indirect" ->
            LET m1 == fetch_word(m)
                ind_addr == m1.ret
            IN  read_word(m1, ind_addr, Page(ind_addr) + (((ind_addr % U8) + 1) % U8))
      [] mode = "IndexedIndirect" ->
            LET m1 == fetch_byte(m)
                ind_addr == m1.ret + m1.cpu.x
                m2 == read_word(m1, ind_addr, ind_addr + 1)
            IN  [m2 EXCEPT !.cpu.remain_cycles = @ + 1]
      [] mode = "IndirectIndexed" ->
            LET m1 == fetch_byte(m)
                ind_addr == m1.ret
                m2 == read_word(m1, ind_addr, ind_addr + 1)
            IN  [m2 EXCEPT !.ret = (m2.ret + m2.cpu.y) % U16]
      [] OTHER -> [m EXCEPT !.panic = TRUE]

\* get_address charging the indexed read modes' page-cross cycle as well
get_address_page_cross_penalty(mode, m) ==
    CASE mode = "ZeroPage" -> fetch_byte(m)
      [] mode = "ZeroPageX" ->
            LET m1 == fetch_byte([m EXCEPT !.cpu.remain_cycles = @ + 1])
            IN  [m1 EXCEPT !.ret = (m1.ret + m1.cpu.x) % U8]
      [] mode = "ZeroPageY" ->
            LET m1 == fetch_byte([m EXCEPT !.cpu.remain_cycles = @ + 1])
            IN  [m1 EXCEPT !.ret = (m1.ret + m1.cpu.y) % U8]
      [] mode = "Relative" ->
            LET m1 == fetch_byte(m)
            IN  [m1 EXCEPT !.ret = (AsI8(m1.ret) + m1.cpu.pc) % U16]
      [] mode = "Absolute" -> fetch_word(m)
      [] mode = "AbsoluteX" ->
            LET m1 == fetch_word(m)
                addr == (m1.ret + m1.cpu.x) % U16
            IN  [m1 EXCEPT !.ret = addr,
                           !.cpu.remain_cycles = @ + B2N(Page(addr) # Page(m1.ret))]
      [] mode = "AbsoluteY" ->
            LET m1 == fetch_word(m)
                addr == (m1.ret + m1.cpu.y) % U16
            IN  [m1 EXCEPT !.ret = addr,
                           !.cpu.remain_cycles = @ + B2N(Page(addr) # Page(m1.ret))]
      [] mode = "Indirect" ->
            LET m1 == fetch_word(m)
                ind_addr == m1.ret
            IN  read_word(m1, ind_addr, Page(ind_addr) + (((ind_addr % U8) + 1) % U8))
      [] mode = "IndexedIndirect" ->
            LET m1 == fetch_byte(m)
                ind_addr == (m1.ret + m1.cpu.x) % U8
                m2 == read_word(m1, ind_addr, (ind_addr + 1) % U8)
            IN  [m2 EXCEPT !.cpu.remain_cycles = @ + 1]
      [] mode = "IndirectIndexed" ->
            LET m1 == fetch_byte(m)
                ind_addr == m1.ret
                m2 == read_word(m1, ind_addr, (ind_addr + 1) % U8)
                addr == (m2.ret + m2.cpu.y) % U16
            IN  [m2 EXCEPT !.ret = addr,
                           !.cpu.remain_cycles = @ + B2N(Page(addr) # Page(m2.ret))]
      [] OTHER -> [m EXCEPT !.panic = TRUE]

get_address(mode, m) ==
    CASE mode = "ZeroPage" -> fetch_byte(m)
      [] mode = "ZeroPageX" ->
            LET m1 == fetch_byte([m EXCEPT !.cpu.remain_cycles = @ + 1])
            IN  [m1 EXCEPT !.ret = (m1.ret + m1.cpu.x) % U8]
      [] mode = "ZeroPageY" ->
            LET m1 == fetch_byte([m EXCEPT !.cpu.remain_cycles = @ + 1])
            IN  [m1 EXCEPT !.ret = (m1.ret + m1.cpu.y) % U8]
      [] mode = "Relative" ->
            LET m1 == fetch_byte(m)
            IN  [m1 EXCEPT !.ret = (AsI8(m1.ret) + m1.cpu.pc) % U16]
      [] mode = "Absolute" -> fetch_word(m)
      [] mode = "AbsoluteX" ->
            LET m1 == fetch_word(m)
            IN  [m1 EXCEPT !.ret = (m1.ret + m1.cpu.x) % U16]
      [] mode = "AbsoluteY" ->
            LET m1 == fetch_word(m)
            IN  [m1 EXCEPT !.ret = (m1.ret + m1.cpu.y) % U16]
      [] mode = "Indirect" ->
            LET m1 == fetch_word(m)
                ind_addr == m1.ret
            IN  read_word(m1, ind_addr, Page(ind_addr) + (((ind_addr % U8) + 1) % U8))
      [] mode = "IndexedIndirect" ->
            LET m1 == fetch_byte(m)
                ind_addr == (m1.ret + m1.cpu.x) % U8
                m2 == read_word(m1, ind_addr, (ind_addr + 1) % U8)
            IN  [m2 EXCEPT !.cpu.remain_cycles = @ + 1]
      [] mode = "IndirectIndexed" ->
            LET m1 == fetch_byte(m)
                ind_addr == m1.ret
                m2 == read_word(m1, ind_addr, (ind_addr + 1) % U8)
            IN  [m2 EXCEPT !.ret = (m2.ret + m2.cpu.y) % U16]
      [] OTHER -> [m EXCEPT !.panic = TRUE]

\* let addr = self.get_address(cpu, ram); cpu.read_byte(ram, addr):
\* m1 is the machine after get_address
read_operand(m1) == read_byte(m1, m1.ret)

\* the tail of fetch for AbsoluteX / AbsoluteY: before_pc is the PC before the
\* operand bytes are fetched, m1 the machine after get_address
fetch_indexed(before_pc, m1) ==
    LET addr == m1.ret
    IN  IF Page(before_pc) # Page(addr)
        THEN read_byte([m1 EXCEPT !.cpu.remain_cycles = @ + 1], addr)
        ELSE read_byte(m1, addr)

\* the tail of fetch for IndirectIndexed without the page-cross cycle
fetch_indirect_indexed_no_penalty(m2) ==
    LET addr == (m2.ret + m2.cpu.y) % U16
    IN  read_byte(m2, addr)

\* the tail of fetch for IndirectIndexed: m2 is the machine after the pointer
\* has been read, with the base address in ret
fetch_indirect_indexed(m2) ==
    LET addr == (m2.ret + m2.cpu.y) % U16
    IN  IF Page((addr - m2.cpu.y + U16) % U16) # Page(addr)
        THEN read_byte([m2 EXCEPT !.cpu.remain_cycles = @ + 1], addr)
        ELSE read_byte(m2, addr)

fetch(mode, m) ==
    CASE mode = "Accumulator" -> [m EXCEPT !.ret = m.cpu.a]
      [] mode = "Immediate" -> fetch_byte(m)
      [] mode \in {"ZeroPage", "ZeroPageX", "ZeroPageY", "Absolute", "IndexedIndirect"} ->
            read_operand(get_address(mode, m))
      [] mode \in {"AbsoluteX", "AbsoluteY"} ->
            fetch_indexed(m.cpu.pc, get_address(mode, m))
      [] mode = "IndirectIndexed" ->
            LET m1 == fetch_byte(m)
                ind_addr == m1.ret
            IN  fetch_indirect_indexed(read_word(m1, ind_addr, (ind_addr + 1) % U8))
      [] OTHER -> [m EXCEPT !.panic = TRUE]

(***************************************************************************)
(* Instruction handlers (the arms of OpCode::execute).  A handler that     *)
(* starts by evaluating its operand takes as m1 the machine after          *)
(* adr_mode.fetch or adr_mode.get_address, with the operand byte or the    *)
(* address in m1.ret.  checked is whether the build traps integer overflow *)
(* (a debug build panics where a release build wraps).                     *)
(***************************************************************************)
\* an internal cycle that is not counted
tick_uncounted(m) == m

\* cpu.remain_cycles += 1
tick(m) == [m EXCEPT !.cpu.remain_cycles = @ + 1]

\* a compare whose carry is the strict comparison
compare_carry_strict(m, reg, byte) ==
    [m EXCEPT !.cpu.flags.c = (reg > byte),
              !.cpu.flags.z = (reg = byte),
              !.cpu.flags.n = (Bit((reg - byte + U8) % U8, 7) = 1)]

\* CMP / CPX / CPY / the compare of DCP: flags from reg and byte
compare(m, reg, byte) ==
    [m EXCEPT !.cpu.flags.c = (reg >= byte),
              !.cpu.flags.z = (reg = byte),
              !.cpu.flags.n = (Bit((reg - byte + U8) % U8, 7) = 1)]

exec_LDA(m1) == set_accumulator(m1, m1.ret)

exec_LDX(m1) == set_index_x(m1, m1.ret)

exec_LDY(m1) == set_index_y(m1, m1.ret)

exec_STA(m1) == write_byte(m1, m1.ret, m1.cpu.a)

exec_STX(m1) == write_byte(m1, m1.ret, m1.cpu.x)

exec_STY(m1) == write_byte(m1, m1.ret, m1.cpu.y)

\* m1 is the machine after pull_from_stack
exec_PLA(m1) == tick(set_accumulator(m1, m1.ret))

\* PLP that unpacks the pulled byte without masking bits 4 and 5
exec_PLP_unmasked(m1) == tick([m1 EXCEPT !.cpu.flags = set_as_u8(@, m1.ret)])

\* m1 is the machine after pull_from_stack
exec_PLP(m1) ==
    LET byte == BitAnd(m1.ret, 207)
    IN  tick([m1 EXCEPT !.cpu.flags = set_as_u8(@, byte)])

exec_AND(m1) == set_accumulator(m1, BitAnd(m1.cpu.a, m1.ret))

exec_EOR(m1) == set_accumulator(m1, BitXor(m1.cpu.a, m1.ret))

exec_ORA(m1) == set_accumulator(m1, BitOr(m1.cpu.a, m1.ret))

exec_BIT(m1) ==
    LET byte == m1.ret
    IN  [m1 EXCEPT !.cpu.flags.z = (BitAnd(m1.cpu.a, byte) = 0),
                   !.cpu.flags.v = (Bit(byte, 6) = 1),
                   !.cpu.flags.n = (Bit(byte, 7) = 1)]

\* ADC that takes the overflow flag from the carry out
exec_ADC_overflow_is_carry(m1) ==
    LET before_byte == m1.ret
        a == m1.cpu.a
        carry == B2N(m1.cpu.flags.c)
        byte == (a + before_byte + carry) % U8
        m2 == [m1 EXCEPT !.cpu.flags.c = a + before_byte + carry > 255,
                         !.cpu.flags.v = a + before_byte + carry > 255]
    IN  set_accumulator(m2, byte)

exec_ADC(m1) ==
    LET before_byte == m1.ret
        a == m1.cpu.a
        byte1 == (a + before_byte) % U8
        overflowing1 == a + before_byte > 255
        carry == B2N(m1.cpu.flags.c)
        byte == (byte1 + carry) % U8
        overflowing2 == byte1 + carry > 255
        m2 == [m1 EXCEPT !.cpu.flags.c = overflowing1 \/ overflowing2,
                         !.cpu.flags.v = (BitAnd(BitXor(a, byte), 128) # 0)
                                         /\ (BitAnd(BitXor(before_byte, byte), 128) # 0)]
    IN  set_accumulator(m2, byte)

\* SBC that borrows when the carry is set
exec_SBC_borrows_on_carry(m1) ==
    LET before_byte == m1.ret
        a == m1.cpu.a
        byte1 == (a - before_byte + U8) % U8
        overflowing1 == a < before_byte
        borrow == B2N(m1.cpu.flags.c)
        byte == (byte1 - borrow + U8) % U8
        overflowing2 == byte1 < borrow
        m2 == [m1 EXCEPT !.cpu.flags.c = ~(overflowing1 \/ overflowing2),
                         !.cpu.flags.v = (BitAnd(BitXor(a, before_byte), 128) # 0)
                                         /\ (BitAnd(BitXor(a, byte), 128) # 0)]
    IN  set_accumulator(m2, byte)

exec_SBC(m1) ==
    LET before_byte == m1.ret
        a == m1.cpu.a
        byte1 == (a - before_byte + U8) % U8
        overflowing1 == a < before_byte
        borrow == B2N(~m1.cpu.flags.c)
        byte == (byte1 - borrow + U8) % U8
        overflowing2 == byte1 < borrow
        m2 == [m1 EXCEPT !.cpu.flags.c = ~(overflowing1 \/ overflowing2),
                         !.cpu.flags.v = (BitAnd(BitXor(a, before_byte), 128) # 0)
                                         /\ (BitAnd(BitXor(a, byte), 128) # 0)]
    IN  set_accumulator(m2, byte)

exec_CMP(m1) == compare(m1, m1.cpu.a, m1.ret)

exec_CPX(m1) == compare(m1, m1.cpu.x, m1.ret)

exec_CPY(m1) == compare(m1, m1.cpu.y, m1.ret)

\* INC / DEC: delta is 1 or 255 (wrapping_add(1) / wrapping_sub(1))
exec_INC_DEC(m1, delta) ==
    LET addr == m1.ret
        m2 == read_byte(m1, addr)
        byte == (m2.ret + delta) % U8
    IN  write_byte(set_zero_and_negative_flag(tick(m2), byte), addr, byte)

\* the new carry and the new byte of ASL / LSR / ROL / ROR
shift_carry(ins, byte) ==
    IF ins \in {"ASL", "ROL"} THEN Bit(byte, 7) = 1 ELSE Bit(byte, 0) = 1

shift_byte(ins, byte, c) ==
    CASE ins = "ASL" -> (byte * 2) % U8
      [] ins = "LSR" -> byte \div 2
      [] ins = "ROL" -> BitOr((byte * 2) % U8, B2N(c))
      [] ins = "ROR" -> BitOr(byte \div 2, B2N(c) * 128)

\* the Accumulator arm of a shift: m1 is the machine after fetch
shift_accumulator(ins, m1) ==
    LET byte == shift_byte(ins, m1.ret, m1.cpu.flags.c)
    IN  set_accumulator([m1 EXCEPT !.cpu.flags.c = shift_carry(ins, m1.ret)], byte)

\* the memory arm of a shift: m1 is the machine after get_address
shift_memory(ins, m1) ==
    LET addr == m1.ret
        m2 == read_byte(m1, addr)
        byte == shift_byte(ins, m2.ret, m2.cpu.flags.c)
        m3 == [m2 EXCEPT !.cpu.flags.c = shift_carry(ins, m2.ret)]
    IN  write_byte(set_zero_and_negative_flag(m3, byte), addr, byte)

\* m0 is the machine after the handler's cpu.remain_cycles += 1
exec_shift(ins, mode, m0) ==
    IF mode = "Accumulator"
    THEN shift_accumulator(ins, fetch(mode, m0))
    ELSE shift_memory(ins, get_address(mode, m0))

exec_JMP(m1) == [m1 EXCEPT !.cpu.pc = m1.ret]

\* JSR that pushes the address after its operand instead of the address of
\* the operand's last byte
exec_JSR_pushes_next(m1, checked) ==
    LET addr == m1.ret
        pc == m1.cpu.pc
        m2 == push_to_stack(m1, pc \div 256)
        m3 == push_to_stack(m2, pc % 256)
    IN  [m3 EXCEPT !.cpu.remain_cycles = @ - 1, !.cpu.pc = addr]

exec_JSR(m1, checked) ==
    LET addr == m1.ret
    IN  IF m1.cpu.pc = 0 /\ checked
        THEN [m1 EXCEPT !.panic = TRUE]
        ELSE LET pc == (m1.cpu.pc + U16 - 1) % U16
                 m2 == push_to_stack(m1, pc \div 256)
                 m3 == push_to_stack(m2, pc % 256)
             IN  [m3 EXCEPT !.cpu.remain_cycles = @ - 1, !.cpu.pc = addr]

exec_RTS(m, checked) ==
    LET m1 == pull_from_stack(tick(m))
        m2 == pull_from_stack(m1)
        pc == m1.ret + m2.ret * 256
    IN  IF pc = 65535 /\ checked
        THEN [m2 EXCEPT !.panic = TRUE]
        ELSE [m2 EXCEPT !.cpu.pc = (pc + 1) % U16]

\* the flag a branch tests and the value it takes the branch on
branch_taken(ins, f) ==
    CASE ins = "BCC" -> f.c = FALSE
      [] ins = "BCS" -> f.c = TRUE
      [] ins = "BNE" -> f.z = FALSE
      [] ins = "BEQ" -> f.z = TRUE
      [] ins = "BPL" -> f.n = FALSE
      [] ins = "BMI" -> f.n = TRUE
      [] ins = "BVC" -> f.v = FALSE
      [] ins = "BVS" -> f.v = TRUE

\* a branch whose page-crossing penalty is one cycle
exec_branch_one_cycle_penalty(ins, m1) ==
    LET addr == m1.ret
    IN  IF branch_taken(ins, m1.cpu.flags)
        THEN LET m2 == tick(m1)
                 m3 == IF Page(m2.cpu.pc) # Page(addr)
                       THEN [m2 EXCEPT !.cpu.remain_cycles = @ + 1]
                       ELSE m2
             IN  [m3 EXCEPT !.cpu.pc = addr]
        ELSE m1

exec_branch(ins, m1) ==
    LET addr == m1.ret
    IN  IF branch_taken(ins, m1.cpu.flags)
        THEN LET m2 == tick(m1)
                 m3 == IF Page(m2.cpu.pc) # Page(addr)
                       THEN [m2 EXCEPT !.cpu.remain_cycles = @ + 2]
                       ELSE m2
             IN  [m3 EXCEPT !.cpu.pc = addr]
        ELSE m1

\* ram.read_byte(0xFFFE) as u16 + (ram.read_byte(0xFFFF) as u16) << 8:
\* + binds tighter than <<, and << on u16 drops the bits shifted out
brk_vector(m) ==
    LET m1 == ram_read_byte(m, 65534)
        m2 == ram_read_byte(m1, 65535)
    IN  [m2 EXCEPT !.ret = ((m1.ret + m2.ret) * 256) % U16]

\* BRK that does not set the B flag before packing P
exec_BRK_keeps_b(m) ==
    LET pc == m.cpu.pc
        m1 == push_to_stack(m, pc \div 256)
        m2 == push_to_stack(m1, pc % 256)
        flags == get_as_u8(m2.cpu.flags)
        m4 == push_to_stack(m2, flags)
        m5 == [m4 EXCEPT !.cpu.flags.i = TRUE]
        m6 == brk_vector(m5)
    IN  [m6 EXCEPT !.cpu.pc = m6.ret]

exec_BRK(m) ==
    LET pc == m.cpu.pc
        m1 == push_to_stack(m, pc \div 256)
        m2 == push_to_stack(m1, pc % 256)
        m3 == [m2 EXCEPT !.cpu.flags.b = TRUE]
        flags == get_as_u8(m3.cpu.flags)
        m4 == push_to_stack(m3, flags)
        m5 == [m4 EXCEPT !.cpu.flags.i = TRUE]
        m6 == brk_vector(m5)
    IN  [m6 EXCEPT !.cpu.pc = m6.ret]

\* RTI that pulls the status byte and drops it
exec_RTI_keeps_status(m) ==
    LET m1 == pull_from_stack(m)
        m3 == [m1 EXCEPT !.cpu.flags.b = FALSE]
        m4 == pull_from_stack(m3)
        m5 == pull_from_stack(m4)
    IN  [m5 EXCEPT !.cpu.pc = m4.ret + m5.ret * 256,
                   !.cpu.remain_cycles = @ - 1]

\* RTI that adds 1 to the pulled address, as RTS does
exec_RTI_adds_one(m) ==
    LET m1 == pull_from_stack(m)
        flags == m1.ret
        m2 == [m1 EXCEPT !.cpu.flags = set_as_u8(@, flags)]
        m3 == [m2 EXCEPT !.cpu.flags.b = FALSE]
        m4 == pull_from_stack(m3)
        m5 == pull_from_stack(m4)
    IN  [m5 EXCEPT !.cpu.pc = (m4.ret + m5.ret * 256 + 1) % U16,
                   !.cpu.remain_cycles = @ - 1]

exec_RTI(m) ==
    LET m1 == pull_from_stack(m)
        flags == m1.ret
        m2 == [m1 EXCEPT !.cpu.flags = set_as_u8(@, flags)]
        m3 == [m2 EXCEPT !.cpu.flags.b = FALSE]
        m4 == pull_from_stack(m3)
        m5 == pull_from_stack(m4)
    IN  [m5 EXCEPT !.cpu.pc = m4.ret + m5.ret * 256,
                   !.cpu.remain_cycles = @ - 1]

exec_LAX(m1) == set_index_x(set_accumulator(m1, m1.ret), m1.ret)

exec_SAX(m1) == write_byte(m1, m1.ret, BitAnd(m1.cpu.a, m1.cpu.x))

exec_DCP(m1) ==
    LET addr == m1.ret
        m2 == read_byte(m1, addr)
        byte == (m2.ret + U8 - 1) % U8
        m3 == write_byte(m2, addr, byte)
        m4 == compare(m3, m3.cpu.a, byte)
    IN  [m4 EXCEPT !.cpu.remain_cycles = @ + 2]

execute(op, m, checked) ==
    LET ins == op[1]
        adr_mode == op[2]
    IN  CASE ins = "LDA" -> exec_LDA(fetch(adr_mode, m))
          [] ins = "LDX" -> exec_LDX(fetch(adr_mode, m))
          [] ins = "LDY" -> exec_LDY(fetch(adr_mode, m))
          [] ins = "STA" -> exec_STA(get_address(adr_mode, m))
          [] ins = "STX" -> exec_STX(get_address(adr_mode, m))
          [] ins = "STY" -> exec_STY(get_address(adr_mode, m))
          [] ins = "TAX" -> tick(set_index_x(m, m.cpu.a))
          [] ins = "TAY" -> tick(set_index_y(m, m.cpu.a))
          [] ins = "TXA" -> tick(set_accumulator(m, m.cpu.x))
          [] ins = "TYA" -> tick(set_accumulator(m, m.cpu.y))
          [] ins = "TSX" -> tick(set_index_x(m, m.cpu.sp))
          [] ins = "TXS" -> tick([m EXCEPT !.cpu.sp = m.cpu.x])
          [] ins = "PHA" -> push_to_stack(m, m.cpu.a)
          [] ins = "PLA" -> exec_PLA(pull_from_stack(m))
          [] ins = "PHP" -> push_to_stack(m, BitOr(get_as_u8(m.cpu.flags), 48))
          [] ins = "PLP" -> exec_PLP(pull_from_stack(m))
          [] ins = "AND" -> exec_AND(fetch(adr_mode, m))
          [] ins = "EOR" -> exec_EOR(fetch(adr_mode, m))
          [] ins = "ORA" -> exec_ORA(fetch(adr_mode, m))
          [] ins = "BIT" -> exec_BIT(fetch(adr_mode, m))
          [] ins = "ADC" -> exec_ADC(fetch(adr_mode, m))
          [] ins = "SBC" -> exec_SBC(fetch(adr_mode, m))
          [] ins = "CMP" -> exec_CMP(fetch(adr_mode, m))
          [] ins = "CPX" -> exec_CPX(fetch(adr_mode, m))
          [] ins = "CPY" -> exec_CPY(fetch(adr_mode, m))
          [] ins = "INC" -> exec_INC_DEC(get_address(adr_mode, m), 1)
          [] ins = "INX" -> set_index_x(tick(m), (m.cpu.x + 1) % U8)
          [] ins = "INY" -> set_index_y(tick(m), (m.cpu.y + 1) % U8)
          [] ins = "DEC" -> exec_INC_DEC(get_address(adr_mode, m), 255)
          [] ins = "DEX" -> set_index_x(tick(m), (m.cpu.x + U8 - 1) % U8)
          [] ins = "DEY" -> set_index_y(tick(m), (m.cpu.y + U8 - 1) % U8)
          [] ins \in {"ASL", "LSR", "ROL", "ROR"} -> exec_shift(ins, adr_mode, tick(m))
          [] ins = "JMP" -> exec_JMP(get_address(adr_mode, tick(m)))
          [] ins = "JSR" -> exec_JSR(get_address(adr_mode, m), checked)
          [] ins = "RTS" -> exec_RTS(m, checked)
          [] ins \in {"BCC", "BCS", "BNE", "BEQ", "BPL", "BMI", "BVC", "BVS"} ->
                exec_branch(ins, get_address(adr_mode, m))
          [] ins = "CLC" -> [tick(m) EXCEPT !.cpu.flags.c = FALSE]
          [] ins = "CLD" -> [tick(m) EXCEPT !.cpu.flags.d = FALSE]
          [] ins = "CLI" -> [tick(m) EXCEPT !.cpu.flags.i = FALSE]
          [] ins = "CLV" -> [tick(m) EXCEPT !.cpu.flags.v = FALSE]
          [] ins = "SEC" -> [tick(m) EXCEPT !.cpu.flags.c = TRUE]
          [] ins = "SED" -> [tick(m) EXCEPT !.cpu.flags.d = TRUE]
          [] ins = "SEI" -> [tick(m) EXCEPT !.cpu.flags.i = TRUE]
          [] ins = "BRK" -> exec_BRK(m)
          [] ins = "NOP" -> tick(m)
          [] ins = "RTI" -> exec_RTI(m)
          [] ins = "LAX" -> exec_LAX(fetch(adr_mode, m))
          [] ins = "SAX" -> exec_SAX(get_address(adr_mode, m))
          [] ins = "DCP" -> exec_DCP(get_address(adr_mode, m))
          [] ins \in {"SKB", "IGN"} -> fetch(adr_mode, m)

(***************************************************************************)
(* The dispatch table, indexed by opcode byte + 1.                         *)
(***************************************************************************)
None == <<>>

OPCODES ==
    <<
       <<"BRK", "Implied", "Official">>, <<"ORA", "IndexedIndirect", "Official">>,
       None, None,
       <<"IGN", "ZeroPage", "Unofficial">>, <<"ORA", "ZeroPage", "Official">>,
       <<"ASL", "ZeroPage", "Official">>, None,
       <<"PHP", "Implied", "Official">>, <<"ORA", "Immediate", "Official">>,
       <<"ASL", "Accumulator", "Official">>, None,
       <<"IGN", "Absolute", "Unofficial">>, <<"ORA", "Absolute", "Official">>,
       <<"ASL", "Absolute", "Official">>, None,
       <<"BPL", "Relative", "Official">>, <<"ORA", "IndirectIndexed", "Official">>,
       None, None,
       <<"IGN", "ZeroPageX", "Unofficial">>, <<"ORA", "ZeroPageX", "Official">>,
       <<"ASL", "ZeroPageX", "Official">>, None,
       <<"CLC", "Implied", "Official">>, <<"ORA", "AbsoluteY", "Official">>,
       <<"NOP", "Implied", "Unofficial">>, None,
       <<"IGN", "AbsoluteX", "Unofficial">>, <<"ORA", "AbsoluteX", "Official">>,
       <<"ASL", "AbsoluteX", "Official">>, None,
       <<"JSR", "Absolute", "Official">>, <<"AND", "IndexedIndirect", "Official">>,
       None, None,
       <<"BIT", "ZeroPage", "Official">>, <<"AND", "ZeroPage", "Official">>,
       <<"ROL", "ZeroPage", "Official">>, None,
       <<"PLP", "Implied", "Official">>, <<"AND", "Immediate", "Official">>,
       <<"ROL", "Accumulator", "Official">>, None,
       <<"BIT", "Absolute", "Official">>, <<"AND", "Absolute", "Official">>,
       <<"ROL", "Absolute", "Official">>, None,
       <<"BMI", "Relative", "Official">>, <<"AND", "IndirectIndexed", "Official">>,
       None, None,
       <<"IGN", "ZeroPageX", "Unofficial">>, <<"AND", "ZeroPageX", "Official">>,
       <<"ROL", "ZeroPageX", "Official">>, None,
       <<"SEC", "Implied", "Official">>, <<"AND", "AbsoluteY", "Official">>,
       <<"NOP", "Implied", "Unofficial">>, None,
       <<"IGN", "AbsoluteX", "Unofficial">>, <<"AND", "AbsoluteX", "Official">>,
       <<"ROL", "AbsoluteX", "Official">>, None,
       <<"RTI", "Implied", "Official">>, <<"EOR", "IndexedIndirect", "Official">>,
       None, None,
       <<"IGN", "ZeroPage", "Unofficial">>, <<"EOR", "ZeroPage", "Official">>,
       <<"LSR", "ZeroPage", "Official">>, None,
       <<"PHA", "Implied", "Official">>, <<"EOR", "Immediate", "Official">>,
       <<"LSR", "Accumulator", "Official">>, None,
       <<"JMP", "Absolute", "Official">>, <<"EOR", "Absolute", "Official">>,
       <<"LSR", "Absolute", "Official">>, None,
       <<"BVC", "Relative", "Official">>, <<"EOR", "IndirectIndexed", "Official">>,
       None, None,
       <<"IGN", "ZeroPageX", "Unofficial">>, <<"EOR", "ZeroPageX", "Official">>,
       <<"LSR", "ZeroPageX", "Official">>, None,
       <<"CLI", "Implied", "Official">>, <<"EOR", "AbsoluteY", "Official">>,
       <<"NOP", "Implied", "Unofficial">>, None,
       <<"IGN", "AbsoluteX", "Unofficial">>, <<"EOR", "AbsoluteX", "Official">>,
       <<"LSR", "AbsoluteX", "Official">>, None,
       <<"RTS", "Implied", "Official">>, <<"ADC", "IndexedIndirect", "Official">>,
       None, None,
       <<"IGN", "ZeroPage", "Unofficial">>, <<"ADC", "ZeroPage", "Official">>,
       <<"ROR", "ZeroPage", "Official">>, None,
       <<"PLA", "Implied", "Official">>, <<"ADC", "Immediate", "Official">>,
       <<"ROR", "Accumulator", "Official">>, None,
       <<"JMP", "Indirect", "Official">>, <<"ADC", "Absolute", "Official">>,
       <<"ROR", "Absolute", "Official">>, None,
       <<"BVS", "Relative", "Official">>, <<"ADC", "IndirectIndexed", "Official">>,
       None, None,
       <<"IGN", "ZeroPageX", "Unofficial">>, <<"ADC", "ZeroPageX", "Official">>,
       <<"ROR", "ZeroPageX", "Official">>, None,
       <<"SEI", "Implied", "Official">>, <<"ADC", "AbsoluteY", "Official">>,
       <<"NOP", "Implied", "Unofficial">>, None,
       <<"IGN", "AbsoluteX", "Unofficial">>, <<"ADC", "AbsoluteX", "Official">>,
       <<"ROR", "AbsoluteX", "Official">>, None,
       <<"SKB", "Immediate", "Unofficial">>, <<"STA", "IndexedIndirect", "Official">>,
       <<"SKB", "Immediate", "Unofficial">>, <<"SAX", "IndexedIndirect", "Unofficial">>,
       <<"STY", "ZeroPage", "Official">>, <<"STA", "ZeroPage", "Official">>,
       <<"STX", "ZeroPage", "Official">>, <<"SAX", "ZeroPage", "Unofficial">>,
       <<"DEY", "Implied", "Official">>, <<"SKB", "Immediate", "Unofficial">>,
       <<"TXA", "Implied", "Official">>, None,
       <<"STY", "Absolute", "Official">>, <<"STA", "Absolute", "Official">>,
       <<"STX", "Absolute", "Official">>, <<"SAX", "Absolute", "Unofficial">>,
       <<"BCC", "Relative", "Official">>, <<"STA", "IndirectIndexed", "Official">>,
       None, None,
       <<"STY", "ZeroPageX", "Official">>, <<"STA", "ZeroPageX", "Official">>,
       <<"STX", "ZeroPageY", "Official">>, <<"SAX", "ZeroPageY", "Unofficial">>,
       <<"TYA", "Implied", "Official">>, <<"STA", "AbsoluteY", "Official">>,
       <<"TXS", "Implied", "Official">>, None,
       None, <<"STA", "AbsoluteX", "Official">>,
       None, None,
       <<"LDY", "Immediate", "Official">>, <<"LDA", "IndexedIndirect", "Official">>,
       <<"LDX", "Immediate", "Official">>, <<"LAX", "IndexedIndirect", "Unofficial">>,
       <<"LDY", "ZeroPage", "Official">>, <<"LDA", "ZeroPage", "Official">>,
       <<"LDX", "ZeroPage", "Official">>, <<"LAX", "ZeroPage", "Unofficial">>,
       <<"TAY", "Implied", "Official">>, <<"LDA", "Immediate", "Official">>,
       <<"TAX", "Implied", "Official">>, None,
       <<"LDY", "Absolute", "Official">>, <<"LDA", "Absolute", "Official">>,
       <<"LDX", "Absolute", "Official">>, <<"LAX", "Absolute", "Unofficial">>,
       <<"BCS", "Relative", "Official">>, <<"LDA", "IndirectIndexed", "Official">>,
       None, <<"LAX", "IndirectIndexed", "Unofficial">>,
       <<"LDY", "ZeroPageX", "Official">>, <<"LDA", "ZeroPageX", "Official">>,
       <<"LDX", "ZeroPageY", "Official">>, <<"LAX", "ZeroPageY", "Unofficial">>,
       <<"CLV", "Implied", "Official">>, <<"LDA", "AbsoluteY", "Official">>,
       <<"TSX", "Implied", "Official">>, None,
       <<"LDY", "AbsoluteX", "Official">>, <<"LDA", "AbsoluteX", "Official">>,
       <<"LDX", "AbsoluteY", "Official">>, <<"LAX", "AbsoluteY", "Unofficial">>,
       <<"CPY", "Immediate", "Official">>, <<"CMP", "IndexedIndirect", "Official">>,
       <<"SKB", "Immediate", "Unofficial">>, <<"DCP", "IndexedIndirect", "Unofficial">>,
       <<"CPY", "ZeroPage", "Official">>, <<"CMP", "ZeroPage", "Official">>,
       <<"DEC", "ZeroPage", "Official">>, <<"DCP", "ZeroPage", "Unofficial">>,
       <<"INY", "Implied", "Official">>, <<"CMP", "Immediate", "Official">>,
       <<"DEX", "Implied", "Official">>, None,
       <<"CPY", "Absolute", "Official">>, <<"CMP", "Absolute", "Official">>,
       <<"DEC", "Absolute", "Official">>, <<"DCP", "Absolute", "Unofficial">>,
       <<"BNE", "Relative", "Official">>, <<"CMP", "IndirectIndexed", "Official">>,
       None, <<"DCP", "IndirectIndexed", "Unofficial">>,
       <<"IGN", "ZeroPageX", "Unofficial">>, <<"CMP", "ZeroPageX", "Official">>,
       <<"DEC", "ZeroPageX", "Official">>, <<"DCP", "ZeroPageX", "Unofficial">>,
       <<"CLD", "Implied", "Official">>, <<"CMP", "AbsoluteY", "Official">>,
       <<"NOP", "Implied", "Unofficial">>, <<"DCP", "AbsoluteY", "Unofficial">>,
       <<"IGN", "AbsoluteX", "Unofficial">>, <<"CMP", "AbsoluteX", "Official">>,
       <<"DEC", "AbsoluteX", "Official">>, <<"DCP", "AbsoluteX", "Unofficial">>,
       <<"CPX", "Immediate", "Official">>, <<"SBC", "IndexedIndirect", "Official">>,
       <<"SKB", "Immediate", "Unofficial">>, None,
       <<"CPX", "ZeroPage", "Official">>, <<"SBC", "ZeroPage", "Official">>,
       <<"INC", "ZeroPage", "Official">>, None,
       <<"INX", "Implied", "Official">>, <<"SBC", "Immediate", "Official">>,
       <<"NOP", "Implied", "Official">>, <<"SBC", "Immediate", "Unofficial">>,
       <<"CPX", "Absolute", "Official">>, <<"SBC", "Absolute", "Official">>,
       <<"INC", "Absolute", "Official">>, None,
       <<"BEQ", "Relative", "Official">>, <<"SBC", "IndirectIndexed", "Official">>,
       None, None,
       <<"IGN", "ZeroPageX", "Unofficial">>, <<"SBC", "ZeroPageX", "Official">>,
       <<"INC", "ZeroPageX", "Official">>, None,
       <<"SED", "Implied", "Official">>, <<"SBC", "AbsoluteY", "Official">>,
       <<"NOP", "Implied", "Unofficial">>, None,
       <<"IGN", "AbsoluteX", "Unofficial">>, <<"SBC", "AbsoluteX", "Official">>,
       <<"INC", "AbsoluteX", "Official">>, None
    >>

is_waiting_for_cycles(c) == c.remain_cycles > 0

\* step that decrements remain_cycles only on the calls that do not dispatch
step_decrements_only_waiting(m, checked) ==
    IF ~is_waiting_for_cycles(m.cpu)
    THEN LET m1 == fetch_byte(m)
             op == m1.ret
         IN  IF OPCODES[op + 1] # None
             THEN LET m2 == execute(OPCODES[op + 1], m1, checked)
                  IN  IF m2.panic
                      THEN m2
                      ELSE [m2 EXCEPT !.cpu.total_cycles = @ + m2.cpu.remain_cycles]
             ELSE [m1 EXCEPT !.panic = TRUE]
    ELSE [m EXCEPT !.cpu.remain_cycles = @ - 1]

\* step that counts every call, the waiting ones too, into total_cycles
step_counts_waiting(m, checked) ==
    IF ~is_waiting_for_cycles(m.cpu)
    THEN LET m1 == fetch_byte(m)
             op == m1.ret
         IN  IF OPCODES[op + 1] # None
             THEN LET m2 == execute(OPCODES[op + 1], m1, checked)
                  IN  IF m2.panic
                      THEN m2
                      ELSE [m2 EXCEPT !.cpu.total_cycles = @ + 1,
                                      !.cpu.remain_cycles = @ - 1]
             ELSE [m1 EXCEPT !.panic = TRUE]
    ELSE [m EXCEPT !.cpu.total_cycles = @ + 1, !.cpu.remain_cycles = @ - 1]

\* the end of a dispatching step with the decrement made before the cycles
\* are added to total_cycles
step_dispatched_decrements_first(m2) ==
    IF m2.panic
    THEN m2
    ELSE [m2 EXCEPT !.cpu.total_cycles = @ + m2.cpu.remain_cycles - 1,
                    !.cpu.remain_cycles = @ - 1]

\* the end of a step call that dispatched: m2 is the machine after op.execute
step_dispatched(m2) ==
    IF m2.panic
    THEN m2
    ELSE [m2 EXCEPT !.cpu.total_cycles = @ + m2.cpu.remain_cycles,
                    !.cpu.remain_cycles = @ - 1]

\* step that counts the opcode fetch into total_cycles before it finds that
\* the opcode has no dispatch entry
step_counts_undefined(m, checked) ==
    IF ~is_waiting_for_cycles(m.cpu)
    THEN LET m1 == fetch_byte(m)
             op == m1.ret
         IN  IF OPCODES[op + 1] # None
             THEN step_dispatched(execute(OPCODES[op + 1], m1, checked))
             ELSE [m1 EXCEPT !.cpu.total_cycles = @ + m1.cpu.remain_cycles,
                             !.panic = TRUE]
    ELSE [m EXCEPT !.cpu.remain_cycles = @ - 1]

step(m, checked) ==
    IF ~is_waiting_for_cycles(m.cpu)
    THEN LET m1 == fetch_byte(m)
             op == m1.ret
         IN  IF OPCODES[op + 1] # None
             THEN step_dispatched(execute(OPCODES[op + 1], m1, checked))
             ELSE [m1 EXCEPT !.panic = TRUE]
    ELSE [m EXCEPT !.cpu.remain_cycles = @ - 1]

\* while cycles > 0 { self.step(ram); cycles -= 1; }
RECURSIVE execute_loop(_, _, _)
execute_loop(m, cycles, checked) ==
    IF cycles > 0 /\ ~m.panic
    THEN execute_loop(step(m, checked), cycles - 1, checked)
    ELSE m

\* CPU::execute without the reset at its start
CPU_execute_without_reset(m, cycles, checked) ==
    execute_loop(m, cycles - 2, checked)

\* CPU::execute(cycles, ram)
CPU_execute(m, cycles, checked) ==
    execute_loop(reset(m), cycles - 2, checked)

(***************************************************************************)
(* Bus images the runs start from.                                         *)
(***************************************************************************)
\* RAM::default(): BRK (0x00) everywhere, every vector 0x0000
Image_blank == RAM_default

\* 0x0000: BRK.  Vectors: NMI 0x9000, reset 0x8000, IRQ/BRK 0x1234.
\* 0x8000: SEC, BRK.  RTI at 0x1234, 0x4600 and 0x9000.
Image_brk ==
    Load(Load(Load(Load(Load(RAM_default,
        65530, <<0, 144, 0, 128, 52, 18>>),
        32768, <<56, 0>>),
        4660, <<64>>),
        17920, <<64>>),
        36864, <<64>>)

\* 0x0000: SED, LDA #$80, BRK.  Vectors: NMI 0x9000, reset 0x0003,
\* IRQ/BRK 0x01FF.  RTI at 0x9000.
Image_flags ==
    Load(Load(Load(RAM_default,
        0, <<248, 169, 128, 0>>),
        65530, <<0, 144, 3, 0, 255, 1>>),
        36864, <<64>>)

Images == {Image_blank, Image_brk, Image_flags}

(***************************************************************************)
(* The state machine: the host calls reset, interrupt and step.            *)
(***************************************************************************)
\* what the instruction at PC charges: remain_cycles when its handler returns
\* no interrupt has been taken yet
NoEntry ==
    [valid |-> FALSE, kind |-> "none", cpu |-> CPU_default, nsteps |-> 0, nevents |-> 0]

charged_cycles(c, r, checked) ==
    LET m1 == fetch_byte(Machine(c, r))
    IN  execute(OPCODES[m1.ret + 1], m1, checked).cpu.remain_cycles

Init ==
    /\ cpu = CPU_default
    /\ ram \in Images
    /\ panicked = FALSE
    /\ log = <<>>
    /\ call = [op |-> "new", kind |-> "none"]
    /\ pre = [cpu |-> CPU_default, ram |-> ram]
    /\ disp = [n |-> 0, k |-> 0, clean |-> FALSE,
               prevn |-> 0, prevk |-> 0, prevclean |-> FALSE]
    /\ nsteps = 0
    /\ nevents = 0
    /\ entry = NoEntry

Called(m, op, kind) ==
    /\ cpu' = m.cpu
    /\ ram' = m.ram
    /\ panicked' = m.panic
    /\ log' = m.log
    /\ call' = [op |-> op, kind |-> kind]
    /\ pre' = [cpu |-> cpu, ram |-> ram]

Reset ==
    /\ ~panicked
    /\ nevents < MaxEvents
    /\ Called(reset(Machine(cpu, ram)), "reset", "none")
    /\ disp' = [disp EXCEPT !.clean = FALSE]
    /\ nevents' = nevents + 1
    /\ UNCHANGED <<nsteps, entry>>

Interrupt ==
    /\ ~panicked
    /\ nevents < MaxEvents
    /\ \E kind \in InterruptKinds :
        \E m \in {interrupt(Machine(cpu, ram), kind)} :
            /\ Called(m, "interrupt", kind)
            /\ disp' = [disp EXCEPT !.clean = @ /\ (m.cpu = cpu)]
            /\ entry' = IF kind = "IRQ" /\ cpu.flags.i
                        THEN entry
                        ELSE [valid |-> TRUE, kind |-> kind, cpu |-> cpu,
                              nsteps |-> nsteps, nevents |-> nevents + 1]
    /\ nevents' = nevents + 1
    /\ UNCHANGED nsteps

\* one call of step by the host
StepCall ==
    /\ ~panicked
    /\ \E checked \in BOOLEAN :
        \E m \in {step(Machine(cpu, ram), checked)} :
            /\ Called(m, "step", "none")
            /\ disp' = IF is_waiting_for_cycles(cpu)
                       THEN [disp EXCEPT !.k = @ + 1]
                       ELSE IF m.panic
                            THEN [disp EXCEPT !.clean = FALSE]
                            ELSE [n |-> charged_cycles(cpu, ram, checked), k |-> 1,
                                  clean |-> TRUE, prevn |-> disp.n,
                                  prevk |-> disp.k, prevclean |-> disp.clean]
    /\ nsteps' = nsteps + 1
    /\ UNCHANGED <<nevents, entry>>

Step == nsteps < MaxSteps /\ StepCall

Next == Reset \/ Interrupt \/ Step

Spec == Init /\ [][Next]_vars


(***************************************************************************)
(* Arranged runs: the host builds a processor and a bus, sets their public *)
(* fields (cpu.pc = .., cpu.sp = .., ram[..] = ..) and then calls step.     *)
(***************************************************************************)
UnitSteps == 7

\* the state once the host has arranged processor c and bus r
Arranged(c, r) ==
    /\ cpu = c
    /\ ram = r
    /\ panicked = FALSE
    /\ log = <<>>
    /\ call = [op |-> "new", kind |-> "none"]
    /\ pre = [cpu |-> c, ram |-> r]
    /\ disp = [n |-> 0, k |-> 0, clean |-> FALSE,
               prevn |-> 0, prevk |-> 0, prevclean |-> FALSE]
    /\ nsteps = 0
    /\ nevents = 0
    /\ entry = NoEntry

\* every flag set (R is always set)
StatusFlag_all == set_as_u8(StatusFlag_default, 255)

\* address of the stack slot k places above SP
StackSlot(sp, k) == 256 + ((sp + k) % U8)

\* RTI at 0x8000 with status, return low and return high on the stack
InitRti ==
    \E status \in 0..255, sp \in {252, 254, 255}, ret \in {36864, 4863},
       f \in {StatusFlag_default, StatusFlag_all} :
        Arranged([CPU_default EXCEPT !.pc = 32768, !.sp = sp, !.flags = f],
                 Load(Load(Load(Load(RAM_default,
                     32768, <<64>>),
                     StackSlot(sp, 1), <<status>>),
                     StackSlot(sp, 2), <<ret % 256>>),
                     StackSlot(sp, 3), <<ret \div 256>>))

\* JSR target at p, RTS at target
InitJsr ==
    \E p \in {32768, 4350, 65532}, sp \in {255, 1, 0}, target \in {36864, 768} :
        Arranged([CPU_default EXCEPT !.pc = p, !.sp = sp],
                 Load(Load(RAM_default,
                     p, <<32, target % 256, target \div 256>>),
                     target, <<96>>))

\* PHP, PLP at 0x8000, for every value of the flags
InitPhp ==
    \E status \in 0..255, sp \in {255, 0} :
        Arranged([CPU_default EXCEPT !.pc = 32768, !.sp = sp,
                                     !.flags = set_as_u8(@, status)],
                 Load(RAM_default, 32768, <<8, 40>>))

\* JMP (ptr) at 0x8000: 0x34 at ptr, 0x12 at the next address in ptr's
\* page (wrapping inside the page), 0x56 at ptr + 1 when that is another
\* address; and JMP target at 0x8000
InitJmp ==
    \/ \E ptr \in {767, 640, 255, 65535, 512} :
        Arranged([CPU_default EXCEPT !.pc = 32768, !.sp = 255],
                 Load(Load(Load(Load(RAM_default,
                     32768, <<108, ptr % 256, ptr \div 256>>),
                     (ptr + 1) % U16, <<86>>),
                     Page(ptr) + ((ptr + 1) % U8), <<18>>),
                     ptr, <<52>>))
    \/ \E target \in {4660, 33023} :
        Arranged([CPU_default EXCEPT !.pc = 32768, !.sp = 255],
                 Load(RAM_default, 32768, <<76, target % 256, target \div 256>>))

\* one instruction at 0x8000 with operand bytes 0x10, 0x02, for the opcodes
\* LDA #, LDA zp, LDA abs, STA abs, JMP abs, JMP (ind), JSR, RTS, RTI, BRK,
\* PHA, PHP, PLA, PLP, NOP, CLC, CLD, CLI, CLV, SEC, SED, SEI
InitListed ==
    \E opcode \in {169, 165, 173, 141, 76, 108, 32, 96, 64, 0, 72, 8, 104, 40,
                   234, 24, 216, 88, 184, 56, 248, 120} :
        Arranged([CPU_default EXCEPT !.pc = 32768, !.sp = 253],
                 Load(RAM_default, 32768, <<opcode, 16, 2>>))

InitUnit == InitRti \/ InitJsr \/ InitPhp \/ InitJmp \/ InitListed

StepUnit == nsteps < UnitSteps /\ Step

SpecUnit == InitUnit /\ [][StepUnit]_vars

(***************************************************************************)
(* Stack runs: the program at 0x8000 sets SP (LDX #sp, TXS), pushes k      *)
(* bytes (LDA #byte, PHA, k times) and pulls k bytes (PLA, k times).       *)
(***************************************************************************)
StackSteps == 2310

StackBase == 32768

\* the byte the j-th push pushes: distinct for j in 1..256
PushByte(j) == (j * 37 + 11) % U8

\* LDX #sp, TXS, then LDA #PushByte(j), PHA for j in 1..k, then k times PLA
StackProgram(sp, k) ==
    <<162, sp, 154>>
    \o [i \in 1..(3 * k) |->
            CASE i % 3 = 1 -> 169
              [] i % 3 = 2 -> PushByte((i + 1) \div 3)
              [] i % 3 = 0 -> 72]
    \o [i \in 1..k |-> 104]

InitStack ==
    \E sp \in {255, 1}, k \in {1, 3, U8} :
        Arranged([CPU_default EXCEPT !.pc = StackBase],
                 Load(RAM_default, StackBase, StackProgram(sp, k)))

StepStack == nsteps < StackSteps /\ StepCall

SpecStack == InitStack /\ [][StepStack]_vars

(***************************************************************************)
(* Register-write runs: one instruction that writes A, X or Y at 0x8000,   *)
(* arranged so that the value written ranges over 0..255.                  *)
(***************************************************************************)
WriteSteps == 2

\* the processor with A = X = Y = SP = v, carry c, and Z and N both zn
WriteCpu(v, c, zn) ==
    [CPU_default EXCEPT !.pc = 32768, !.a = v, !.x = v, !.y = v, !.sp = v,
                        !.flags.c = c, !.flags.z = zn, !.flags.n = zn]

InitWrite ==
    \E v \in 0..255, c \in BOOLEAN, zn \in BOOLEAN :
        \* LDA #v, LDX #v, LDY #v
        \/ \E opcode \in {169, 162, 160} :
            /\ ~c
            /\ Arranged(WriteCpu(0, c, zn), Load(RAM_default, 32768, <<opcode, v>>))
        \* LAX $10 with v at 0x0010
        \/ /\ ~c
           /\ Arranged(WriteCpu(0, c, zn),
                       Load(Load(RAM_default, 32768, <<167, 16>>), 16, <<v>>))
        \* TAX, TAY, TXA, TYA, TSX, INX, INY, DEX, DEY
        \/ \E opcode \in {170, 168, 138, 152, 186, 232, 200, 202, 136} :
            /\ ~c
            /\ Arranged(WriteCpu(v, c, zn), Load(RAM_default, 32768, <<opcode>>))
        \* PLA with v on the stack
        \/ /\ ~c
           /\ Arranged([WriteCpu(0, c, zn) EXCEPT !.sp = 254],
                       Load(Load(RAM_default, 32768, <<104>>), 511, <<v>>))
        \* AND #, EOR #, ORA #, ADC #, SBC #
        \/ \E opcode \in {41, 73, 9, 105, 233}, operand \in {0, 1, 128, 255} :
            Arranged(WriteCpu(v, c, zn), Load(RAM_default, 32768, <<opcode, operand>>))
        \* ASL A, LSR A, ROL A, ROR A
        \/ \E opcode \in {10, 74, 42, 106} :
            Arranged(WriteCpu(v, c, zn), Load(RAM_default, 32768, <<opcode>>))

StepWrite == nsteps < WriteSteps /\ StepCall

SpecWrite == InitWrite /\ [][StepWrite]_vars

(***************************************************************************)
(* Arithmetic runs: ADC #M or SBC #M at 0x8000, for every accumulator, every *)
(* operand and both carries; the D flag is set for a sample of them.        *)
(***************************************************************************)
AluSteps == 1

\* the values the runs with D set use
AluSamples == {0, 1, 16, 80, 112, 127, 128, 176, 208, 255}

\* opcode #M at 0x8000 with A = a, C = c, D = d
AluArranged(opcode, a, operand, c, d) ==
    Arranged([CPU_default EXCEPT !.pc = 32768, !.sp = 255, !.a = a,
                                 !.flags.c = c, !.flags.d = d],
             Load(RAM_default, 32768, <<opcode, operand>>))

InitAdc ==
    \E a \in 0..255, operand \in 0..255, c \in BOOLEAN, d \in BOOLEAN :
        /\ d => (a \in AluSamples /\ operand \in AluSamples)
        /\ AluArranged(105, a, operand, c, d)

InitSbc ==
    \E a \in 0..255, operand \in 0..255, c \in BOOLEAN, d \in BOOLEAN :
        /\ d => (a \in AluSamples /\ operand \in AluSamples)
        /\ AluArranged(233, a, operand, c, d)

StepAlu == nsteps < AluSteps /\ StepCall

SpecAdc == InitAdc /\ [][StepAlu]_vars

SpecSbc == InitSbc /\ [][StepAlu]_vars

(***************************************************************************)
(* Compare runs: CMP #M for every accumulator and operand; CMP, CPX and CPY *)
(* in immediate and zero page mode for every register value and a sample of *)
(* operands, from flags all clear and all set.                              *)
(***************************************************************************)
CmpSteps == 1

\* the opcodes of the compare instructions tried, with the register compared
CmpOpcodes ==
    { [op |-> 201, reg |-> "a"], [op |-> 197, reg |-> "a"],
      [op |-> 224, reg |-> "x"], [op |-> 228, reg |-> "x"],
      [op |-> 192, reg |-> "y"], [op |-> 196, reg |-> "y"] }

\* registers A = 0x11, X = 0x22, Y = 0x33 with the compared one set to v
CmpCpu(reg, v, f) ==
    [CPU_default EXCEPT !.pc = 32768, !.sp = 253, !.flags = f,
                        !.a = IF reg = "a" THEN v ELSE 17,
                        !.x = IF reg = "x" THEN v ELSE 34,
                        !.y = IF reg = "y" THEN v ELSE 51]

\* the operand is the immediate byte, or the byte at zero page address 0x10
CmpRam(op, operand) ==
    IF OPCODES[op + 1][2] = "Immediate"
    THEN Load(RAM_default, 32768, <<op, operand>>)
    ELSE Load(Load(RAM_default, 32768, <<op, 16>>), 16, <<operand>>)

InitCmp ==
    \/ \E v \in 0..255, operand \in 0..255 :
           Arranged(CmpCpu("a", v, StatusFlag_default), CmpRam(201, operand))
    \/ \E o \in CmpOpcodes, v \in 0..255, operand \in AluSamples,
          f \in {StatusFlag_default, StatusFlag_all} :
           Arranged(CmpCpu(o.reg, v, f), CmpRam(o.op, operand))

StepCmp == nsteps < CmpSteps /\ StepCall

SpecCmp == InitCmp /\ [][StepCmp]_vars

(***************************************************************************)
(* Branch runs: one branch instruction with every offset byte, at places    *)
(* where the target stays in the page, leaves it, and wraps past either end *)
(* of the address space, with the tested flag clear and set.                *)
(***************************************************************************)
BranchSteps == 2

\* BPL, BMI, BVC, BVS, BCC, BCS, BNE, BEQ
BranchOpcodes == {16, 48, 80, 112, 144, 176, 208, 240}

\* flag values: none, all, C and N only, Z and V only
BranchFlags ==
    { StatusFlag_default, StatusFlag_all,
      [StatusFlag_default EXCEPT !.c = TRUE, !.n = TRUE],
      [StatusFlag_default EXCEPT !.z = TRUE, !.v = TRUE] }

InitBranch ==
    \E opcode \in BranchOpcodes, offset \in 0..255, f \in BranchFlags,
       p \in {32769, 33008, 0, 65533, 65535} :
        Arranged([CPU_default EXCEPT !.pc = p, !.sp = 253, !.a = 17, !.x = 34,
                                     !.y = 51, !.flags = f],
                 Load(Load(RAM_default, p, <<opcode>>), (p + 1) % U16, <<offset>>))

StepBranch == nsteps < BranchSteps /\ StepCall

SpecBranch == InitBranch /\ [][StepBranch]_vars

(***************************************************************************)
(* Decode runs: an opcode byte without a dispatch entry at p, alone or      *)
(* after a NOP, with registers and flags that differ from their defaults.   *)
(***************************************************************************)
DecodeSteps == 4

\* the opcode bytes whose OPCODES entry is None
UndefinedOpcodes == {op \in 0..255 : OPCODES[op + 1] = None}

InitDecode ==
    \E opcode \in UndefinedOpcodes, p \in {32768, 65535, 0},
       f \in {StatusFlag_default, StatusFlag_all}, program \in {<<>>, <<234>>} :
        Arranged([CPU_default EXCEPT !.pc = p, !.sp = 253, !.a = 17, !.x = 34,
                                     !.y = 51, !.flags = f],
                 Load(Load(RAM_default, (p + Len(program)) % U16, <<opcode, 169, 1>>),
                      p, program))

StepDecode == nsteps < DecodeSteps /\ StepCall

SpecDecode == InitDecode /\ [][StepDecode]_vars

(***************************************************************************)
(* Factory runs with programs that unpack and pack the status byte: the     *)
(* host calls reset, interrupt and step on CPU::default() and one of the    *)
(* images below or above.                                                   *)
(***************************************************************************)
\* 0x0000: PLP, PHP, RTI.  Every vector 0x0000.
Image_php == Load(RAM_default, 0, <<40, 8, 64>>)

\* 0x0000: RTI.  Vectors: NMI 0x0000, reset 0x0000, IRQ/BRK 0x0001.
\* 0x0001: PHP.
Image_rti == Load(Load(RAM_default, 0, <<64, 8>>), 65534, <<1>>)

InitFactory ==
    /\ cpu = CPU_default
    /\ ram \in Images \cup {Image_php, Image_rti}
    /\ panicked = FALSE
    /\ log = <<>>
    /\ call = [op |-> "new", kind |-> "none"]
    /\ pre = [cpu |-> CPU_default, ram |-> ram]
    /\ disp = [n |-> 0, k |-> 0, clean |-> FALSE,
               prevn |-> 0, prevk |-> 0, prevclean |-> FALSE]
    /\ nsteps = 0
    /\ nevents = 0
    /\ entry = NoEntry

SpecFactory == InitFactory /\ [][Next]_vars

(***************************************************************************)
(* Status byte runs: the host builds a StatusFlag with any field values     *)
(* (test_get_as_u8 builds one with r false) and calls set_as_u8(byte) and   *)
(* get_as_u8() on it.  call.kind holds the argument of set_as_u8 or the     *)
(* value returned by get_as_u8.                                             *)
(***************************************************************************)
PackCalls == 1

\* StatusFlag { c: .., z: .., i: .., d: .., b: .., r: .., v: .., n: .. }
StatusFlags ==
    [c : BOOLEAN, z : BOOLEAN, i : BOOLEAN, d : BOOLEAN,
     b : BOOLEAN, r : BOOLEAN, v : BOOLEAN, n : BOOLEAN]

\* StatusFlag::default(), or any StatusFlag with r false
InitPack ==
    \E f \in StatusFlags :
        /\ f = StatusFlag_default \/ ~f.r
        /\ Arranged([CPU_default EXCEPT !.flags = f], RAM_default)

\* sf.set_as_u8(byte)
SetAsU8 ==
    /\ nevents < PackCalls
    /\ \E byte \in 0..255 :
        /\ cpu' = [cpu EXCEPT !.flags = set_as_u8(@, byte)]
        /\ call' = [op |-> "set_as_u8", kind |-> byte]
    /\ pre' = [cpu |-> cpu, ram |-> ram]
    /\ nevents' = nevents + 1
    /\ UNCHANGED <<ram, panicked, log, disp, nsteps, entry>>

\* sf.get_as_u8()
GetAsU8 ==
    /\ nevents < PackCalls
    /\ call' = [op |-> "get_as_u8", kind |-> get_as_u8(cpu.flags)]
    /\ pre' = [cpu |-> cpu, ram |-> ram]
    /\ nevents' = nevents + 1
    /\ UNCHANGED <<cpu, ram, panicked, log, disp, nsteps, entry>>

NextPack == SetAsU8 \/ GetAsU8

SpecPack == InitPack /\ [][NextPack]_vars

(***************************************************************************)
(* Budgeted runs: the host loads a program, the reset vector 0x8000 and a   *)
(* data byte, and calls execute with a cycle budget.                        *)
(***************************************************************************)
ExecuteCalls == 1

MaxBudget == 17

\* LDX #$02, LDA $40,X, STA $43, LDY $FFFD at 0x8000; reset vector 0x8000;
\* byte at 0x0042
Image_s1(byte) ==
    Load(Load(Load(RAM_default,
        32768, <<162, 2, 181, 64, 133, 67, 172, 253, 255>>),
        65532, <<0, 128>>),
        66, <<byte>>)

\* CPU::default(), or a processor that has run before
InitExecute ==
    \E byte \in 0..255,
       c \in {CPU_default,
              [CPU_default EXCEPT !.pc = 4660, !.sp = 17, !.a = 1, !.x = 1, !.y = 1,
                                  !.flags = StatusFlag_all, !.total_cycles = 9]} :
        Arranged(c, Image_s1(byte))

\* one call of execute by the host
Execute ==
    /\ ~panicked
    /\ nevents < ExecuteCalls
    /\ \E cycles \in 0..MaxBudget, checked \in BOOLEAN :
        \E m \in {CPU_execute(Machine(cpu, ram), cycles, checked)} :
            Called(m, "execute", cycles)
    /\ nevents' = nevents + 1
    /\ UNCHANGED <<disp, nsteps, entry>>

SpecExecute == InitExecute /\ [][Execute]_vars

(***************************************************************************)
(* Control transfer runs at the ends of the address space: RTS at 0x8000    *)
(* with a return address on the stack, and JSR placed so that its operand   *)
(* ends at or near 0xFFFF.                                                  *)
(***************************************************************************)
WrapSteps == 7

InitWrap ==
    \/ \E ret \in {65535, 65534, 255, 0, 4660}, sp \in {253, 255, 0} :
        Arranged([CPU_default EXCEPT !.pc = 32768, !.sp = sp],
                 Load(Load(Load(RAM_default,
                     32768, <<96>>),
                     StackSlot(sp, 1), <<ret % 256>>),
                     StackSlot(sp, 2), <<ret \div 256>>))
    \/ \E p \in {65533, 65532, 65534, 32768}, sp \in {255, 1, 0}, target \in {36864, 768} :
        Arranged([CPU_default EXCEPT !.pc = p, !.sp = sp],
                 Load(Load(Load(Load(RAM_default,
                     p, <<32>>),
                     (p + 1) % U16, <<target % 256>>),
                     (p + 2) % U16, <<target \div 256>>),
                     target, <<234>>))

StepWrap == nsteps < WrapSteps /\ StepCall

SpecWrap == InitWrap /\ [][StepWrap]_vars

(***************************************************************************)
(* Indexed runs: one load or store in AbsoluteX, AbsoluteY or               *)
(* IndirectIndexed mode at p, with base addresses and index values for      *)
(* which indexing stays in the base's page, leaves it, and wraps past       *)
(* 0xFFFF, and with the program in the base's page and in another one.      *)
(***************************************************************************)
IndexedSteps == 6

\* LDA abs,X; LDA abs,Y; LDX abs,Y; LDY abs,X; STA abs,X; STA abs,Y
AbsoluteIndexedOpcodes == {189, 185, 190, 188, 157, 153}

\* ORA, AND, EOR, ADC, LDA, LAX, CMP, SBC (d),Y; STA (d),Y
IndirectIndexedOpcodes == {17, 49, 81, 113, 177, 179, 209, 241, 145}

IndexedBases == {32848, 33023, 592, 767, 32767, 65535, 12288}

IndexValues == {0, 1, 255, 176}

\* A = 0x5A, the index register the mode uses = index, the other one = 0x33
IndexedCpu(p, opcode, index) ==
    [CPU_default EXCEPT !.pc = p, !.sp = 253, !.a = 90,
        !.x = IF OPCODES[opcode + 1][2] = "AbsoluteX" THEN index ELSE 51,
        !.y = IF OPCODES[opcode + 1][2] = "AbsoluteX" THEN 51 ELSE index]

InitIndexed ==
    \E p \in {32768, 512}, base \in IndexedBases, index \in IndexValues :
        \/ \E opcode \in AbsoluteIndexedOpcodes :
            Arranged(IndexedCpu(p, opcode, index),
                     Load(Load(RAM_default,
                         (base + index) % U16, <<66>>),
                         p, <<opcode, base % 256, base \div 256>>))
        \/ \E opcode \in IndirectIndexedOpcodes, ll \in {16, 255} :
            Arranged(IndexedCpu(p, opcode, index),
                     Load(Load(Load(Load(RAM_default,
                         (base + index) % U16, <<66>>),
                         p, <<opcode, ll>>),
                         ll, <<base % 256>>),
                         (ll + 1) % U8, <<base \div 256>>))

StepIndexed == nsteps < IndexedSteps /\ StepCall

SpecIndexed == InitIndexed /\ [][StepIndexed]_vars

(***************************************************************************)
(* Zero-page runs: one load or store in ZeroPageX, ZeroPageY,               *)
(* IndexedIndirect or IndirectIndexed mode at 0x8000, for every operand     *)
(* byte.  The cells the mode should use hold 0x34 and 0x12; the cells at    *)
(* the unwrapped addresses, in page one, hold 0x77.                         *)
(***************************************************************************)
ZeroPageSteps == 6

\* LDA zp,X; LDX zp,Y; STA zp,X; STX zp,Y; LDA (d,X); STA (d,X); LDA (d),Y;
\* STA (d),Y
ZeroPageOpcodes == {181, 182, 149, 150, 161, 129, 177, 145}

ZeroPageIndexValues == {0, 1, 2, 128, 255}

InitZeroPage ==
    \E opcode \in ZeroPageOpcodes, ll \in 0..255, index \in ZeroPageIndexValues :
        LET offset == IF OPCODES[opcode + 1][2] = "IndirectIndexed" THEN 0 ELSE index
            zp == (ll + offset) % U8
        IN  Arranged([CPU_default EXCEPT !.pc = 32768, !.sp = 253, !.a = 90,
                                         !.x = index, !.y = index],
                     Load(Load(Load(Load(Load(RAM_default,
                         4660, <<66>>),
                         ll + offset, <<119, 119>>),
                         zp, <<52>>),
                         (zp + 1) % U8, <<18>>),
                         32768, <<opcode, ll>>))

StepZeroPage == nsteps < ZeroPageSteps /\ StepCall

SpecZeroPage == InitZeroPage /\ [][StepZeroPage]_vars

(***************************************************************************)
(* Read-modify-write runs: one ASL, LSR, ROL, ROR, INC, DEC or DCP on       *)
(* memory at 0x8000 with the operand bytes F0 02, in each of its            *)
(* addressing modes, with index values that stay in the page and leave it.  *)
(***************************************************************************)
RmwSteps == 10

\* the opcodes of the OPCODES entries for ASL, LSR, ROL, ROR, INC, DEC and
\* DCP in a mode other than Accumulator
RmwOpcodes ==
    {op \in 0..255 :
        /\ OPCODES[op + 1] # None
        /\ OPCODES[op + 1][1] \in {"ASL", "LSR", "ROL", "ROR", "INC", "DEC", "DCP"}
        /\ OPCODES[op + 1][2] # "Accumulator"}

RmwIndexValues == {0, 1, 32, 255}

\* the pointer 0x02F0 for (d,X) and (d),Y is at 0x00F0 + X and at 0x00F0
InitRmw ==
    \E opcode \in RmwOpcodes, index \in RmwIndexValues, byte \in {0, 1, 128, 255} :
        Arranged([CPU_default EXCEPT !.pc = 32768, !.sp = 253, !.a = 1,
                                     !.x = index, !.y = index],
                 Load(Load(Load(Load(Load(RAM_default,
                     (752 + index) % U16, <<byte>>),
                     (240 + index) % U8, <<byte>>),
                     IF OPCODES[opcode + 1][2] = "IndexedIndirect"
                     THEN (240 + index) % U8 ELSE 240, <<240>>),
                     IF OPCODES[opcode + 1][2] = "IndexedIndirect"
                     THEN (241 + index) % U8 ELSE 241, <<2>>),
                     32768, <<opcode, 240, 2>>))

StepRmw == nsteps < RmwSteps /\ StepCall

SpecRmw == InitRmw /\ [][StepRmw]_vars

(***************************************************************************)
(* Dispatch-table runs: each opcode that has a dispatch entry, at 0x8000    *)
(* with two operand bytes, with the flags all clear and all set and with    *)
(* index registers that leave and cross pages.                              *)
(***************************************************************************)
EverySteps == 9

DefinedOpcodes == {op \in 0..255 : OPCODES[op + 1] # None}

InitEvery ==
    \E opcode \in DefinedOpcodes, f \in {StatusFlag_default, StatusFlag_all},
       index \in {0, 255}, operand \in {<<16, 2>>, <<255, 255>>} :
        Arranged([CPU_default EXCEPT !.pc = 32768, !.sp = 253, !.a = 1,
                                     !.x = index, !.y = index, !.flags = f],
                 Load(RAM_default, 32768, <<opcode>> \o operand))

StepEvery == nsteps < EverySteps /\ StepCall

SpecEvery == InitEvery /\ [][StepEvery]_vars

(***************************************************************************)
(* Interrupt runs: a program of NOPs at q, the handler RTI behind the NMI   *)
(* vector and the handler SEC, RTI behind the IRQ/BRK vector.  The host     *)
(* calls step, and interrupt at any point of the run.                       *)
(***************************************************************************)
InterruptSteps == 14

InterruptCalls == 1

\* vectors: NMI 0x9000, reset 0x8000, IRQ/BRK 0x1234
Image_handlers(q) ==
    Load(Load(Load(Load(RAM_default,
        q, <<234, 234>>),
        65530, <<0, 144, 0, 128, 52, 18>>),
        36864, <<64>>),
        4660, <<56, 64>>)

\* flag values: none, all but I, I only, and C, N and B
InterruptFlags ==
    { StatusFlag_default,
      [StatusFlag_all EXCEPT !.i = FALSE],
      [StatusFlag_default EXCEPT !.i = TRUE],
      [StatusFlag_default EXCEPT !.c = TRUE, !.n = TRUE, !.b = TRUE] }

InitInterrupt ==
    \E q \in {32768, 4863, 0}, sp \in {253, 1, 0}, f \in InterruptFlags :
        Arranged([CPU_default EXCEPT !.pc = q, !.sp = sp, !.a = 17, !.x = 34,
                                     !.y = 51, !.flags = f],
                 Image_handlers(q))

InterruptOnce == nevents < InterruptCalls /\ Interrupt

StepInterrupt == nsteps < InterruptSteps /\ StepCall

NextInterrupt == InterruptOnce \/ StepInterrupt

SpecInterrupt == InitInterrupt /\ [][NextInterrupt]_vars

(***************************************************************************)
(* Properties.  pre, call and log describe the last call: the state it     *)
(* began in, which call it was, and the bus accesses it made.              *)
(***************************************************************************)
\* the last call was a step that dispatched instruction ins without panicking
Dispatched(ins) ==
    /\ call.op = "step"
    /\ pre.cpu.remain_cycles = 0
    /\ ~panicked
    /\ OPCODES[ram_cell(pre.ram, pre.cpu.pc) + 1][1] = ins

\* C1: an instruction dispatched from remain_cycles = 0 that charges n cycles
\* occupies exactly n step calls: after k of them (the dispatching one
\* included) remain_cycles is n - k, so it is 0 after n and not before; the
\* calls after the first make no bus access; and the call that fetches the
\* next opcode is made only when the previous instruction has had its n calls.
C1_InstructionOccupiesItsCycles ==
    /\ disp.clean =>
        /\ 1 <= disp.k
        /\ disp.k <= disp.n
        /\ cpu.remain_cycles = disp.n - disp.k
        /\ (call.op = "step" /\ disp.k > 1) => log = <<>>
        /\ (call.op = "step" /\ disp.k = 1) =>
            /\ Len(log) >= 1
            /\ log[1] = <<"r", pre.cpu.pc, ram_cell(pre.ram, pre.cpu.pc)>>
    /\ (disp.clean /\ disp.k = 1 /\ disp.prevclean) => disp.prevk = disp.prevn

\* a BRK (7 cycles) has had its 7 step calls and the 8th has fetched the next opcode
C1_Witness ==
    /\ disp.clean /\ disp.k = 1
    /\ disp.prevclean /\ disp.prevn = 7
    /\ nsteps = 8 /\ nevents = 0

\* C2: a step call entered with remain_cycles > 0 makes no bus access and
\* changes nothing but remain_cycles, which it decrements by exactly 1.
C2_WaitingStepOnlyDecrements ==
    (call.op = "step" /\ pre.cpu.remain_cycles > 0) =>
        /\ log = <<>>
        /\ cpu = [pre.cpu EXCEPT !.remain_cycles = @ - 1]
        /\ ram = pre.ram
        /\ ~panicked

C2_Witness ==
    /\ call.op = "step"
    /\ pre.cpu.remain_cycles > 0
    /\ pre.cpu.a = 128 /\ pre.cpu.flags.d /\ pre.cpu.flags.n
    /\ pre.cpu.total_cycles > 0

\* C3: after reset SP = 0xFF, A = X = Y = 0, C Z I D B V N are false, R is
\* true, and PC is the little-endian word the bus held at 0xFFFC / 0xFFFD
\* when reset was called.
C3_ResetState ==
    call.op = "reset" =>
        /\ cpu.sp = 255
        /\ cpu.a = 0 /\ cpu.x = 0 /\ cpu.y = 0
        /\ cpu.flags = [c |-> FALSE, z |-> FALSE, i |-> FALSE, d |-> FALSE,
                        b |-> FALSE, r |-> TRUE, v |-> FALSE, n |-> FALSE]
        /\ cpu.pc = ram_cell(pre.ram, 65532) + 256 * ram_cell(pre.ram, 65533)

\* a reset of a processor whose A, SP, D and N differ from the reset values
C3_Witness ==
    /\ call.op = "reset"
    /\ pre.cpu.a = 128 /\ pre.cpu.sp # 255
    /\ pre.cpu.flags.d /\ pre.cpu.flags.n
    /\ cpu.pc = 3

\* C4: interrupt(IRQ) with I set changes nothing and makes no bus access.
C4_MaskedIrqHasNoEffect ==
    (call.op = "interrupt" /\ call.kind = "IRQ" /\ pre.cpu.flags.i) =>
        /\ cpu = pre.cpu
        /\ ram = pre.ram
        /\ log = <<>>
        /\ ~panicked

C4_Witness ==
    /\ call.op = "interrupt" /\ call.kind = "IRQ"
    /\ pre.cpu.flags.i
    /\ ram_cell(ram, 65534) = 52

\* C5: interrupt(NMI), and interrupt(IRQ) with I clear, write PC high at
\* 0x0100+SP, then PC low at 0x0100+(SP-1 mod 256), then P with bit 4 = 0
\* and bit 5 = 1 (and the I of before) at 0x0100+(SP-2 mod 256); SP drops by
\* 3 mod 256; I is set; PC is the little-endian word at 0xFFFA (NMI) or
\* 0xFFFE (IRQ).
C5_InterruptEntry ==
    (/\ call.op = "interrupt"
     /\ (call.kind = "NMI" \/ (call.kind = "IRQ" /\ ~pre.cpu.flags.i))) =>
        LET p == pre.cpu
            f == p.flags
            status == B2N(f.c) + 2 * B2N(f.z) + 4 * B2N(f.i) + 8 * B2N(f.d)
                      + 32 + 64 * B2N(f.v) + 128 * B2N(f.n)
            vector == IF call.kind = "NMI" THEN 65530 ELSE 65534
            lo == ram_cell(pre.ram, vector)
            hi == ram_cell(pre.ram, vector + 1)
            s1 == 256 + p.sp
            s2 == 256 + ((p.sp + 255) % 256)
            s3 == 256 + ((p.sp + 254) % 256)
        IN  /\ log = << <<"w", s1, p.pc \div 256>>, <<"w", s2, p.pc % 256>>,
                        <<"w", s3, status>>,
                        <<"r", vector, lo>>, <<"r", vector + 1, hi>> >>
            /\ ram_cell(ram, s1) = p.pc \div 256
            /\ ram_cell(ram, s2) = p.pc % 256
            /\ ram_cell(ram, s3) = status
            /\ cpu.sp = (p.sp + 253) % 256
            /\ cpu.flags.i
            /\ cpu.pc = lo + 256 * hi

\* an NMI taken with I and B set, right after a BRK instruction
C5_Witness ==
    /\ call.op = "interrupt" /\ call.kind = "NMI"
    /\ pre.cpu.flags.i /\ pre.cpu.flags.b
    /\ pre.cpu.pc = 17920
    /\ cpu.pc = 36864

\* C6: interrupt(BRK) pushes PC high, PC low, then a status byte with bit 4
\* and bit 5 both 1, sets I and loads PC from 0xFFFE / 0xFFFF.
C6_InterruptBrkPushesB ==
    (call.op = "interrupt" /\ call.kind = "BRK") =>
        LET p == pre.cpu
        IN  /\ Len(log) = 5
            /\ log[1] = <<"w", 256 + p.sp, p.pc \div 256>>
            /\ log[2] = <<"w", 256 + ((p.sp + 255) % 256), p.pc % 256>>
            /\ log[3][1] = "w"
            /\ log[3][2] = 256 + ((p.sp + 254) % 256)
            /\ Bit(log[3][3], 4) = 1
            /\ Bit(log[3][3], 5) = 1
            /\ cpu.flags.i
            /\ cpu.pc = ram_cell(ram, 65534) + 256 * ram_cell(ram, 65535)

\* C7: interrupt(Reset) zeroes A, X, Y, sets SP = 0xFF, clears every flag but
\* R, writes nothing, and loads PC from 0xFFFC / 0xFFFD.
C7_InterruptResetClears ==
    (call.op = "interrupt" /\ call.kind = "Reset") =>
        /\ cpu.a = 0 /\ cpu.x = 0 /\ cpu.y = 0
        /\ cpu.sp = 255
        /\ cpu.flags = [c |-> FALSE, z |-> FALSE, i |-> FALSE, d |-> FALSE,
                        b |-> FALSE, r |-> TRUE, v |-> FALSE, n |-> FALSE]
        /\ ram = pre.ram
        /\ \A j \in 1..Len(log) : log[j][1] = "r"
        /\ cpu.pc = ram_cell(ram, 65532) + 256 * ram_cell(ram, 65533)

\* C8: the BRK instruction sets PC to mem[0xFFFE] + 256 * mem[0xFFFF].
C8_BrkLoadsVector ==
    Dispatched("BRK") =>
        cpu.pc = ram_cell(ram, 65534) + 256 * ram_cell(ram, 65535)

\* C9: the BRK instruction writes, in this order, the high byte of the
\* address it pushes at 0x0100+SP, its low byte at 0x0100+(SP-1), and P with
\* bits 4 and 5 set at 0x0100+(SP-2) (mod 256); SP drops by 3 mod 256; I is
\* set; C, Z, D, V, N and A, X, Y are unchanged.  The address pushed is the
\* PC the handler starts with, the address after the opcode byte.
C9_BrkPushes ==
    Dispatched("BRK") =>
        LET p == pre.cpu
            f == p.flags
            addr == (p.pc + 1) % 65536
            status == B2N(f.c) + 2 * B2N(f.z) + 4 * B2N(f.i) + 8 * B2N(f.d)
                      + 16 + 32 + 64 * B2N(f.v) + 128 * B2N(f.n)
            s1 == 256 + p.sp
            s2 == 256 + ((p.sp + 255) % 256)
            s3 == 256 + ((p.sp + 254) % 256)
        IN  /\ Len(log) >= 4
            /\ SubSeq(log, 2, 4) = << <<"w", s1, addr \div 256>>,
                                      <<"w", s2, addr % 256>>,
                                      <<"w", s3, status>> >>
            /\ \A j \in 5..Len(log) : log[j][1] = "r"
            /\ cpu.sp = (p.sp + 253) % 256
            /\ cpu.flags.i
            /\ cpu.flags.c = f.c /\ cpu.flags.z = f.z /\ cpu.flags.d = f.d
            /\ cpu.flags.v = f.v /\ cpu.flags.n = f.n
            /\ cpu.a = p.a /\ cpu.x = p.x /\ cpu.y = p.y

\* a BRK at 0x0003 with D and N set, A = 0x80 and SP = 0x00 (the pushes wrap)
C9_Witness ==
    /\ Dispatched("BRK")
    /\ pre.cpu.pc = 3 /\ pre.cpu.sp = 0
    /\ pre.cpu.flags.d /\ pre.cpu.flags.n /\ pre.cpu.a = 128
    /\ ram_cell(ram, 256) = 0 /\ ram_cell(ram, 511) = 4 /\ ram_cell(ram, 510) = 184

\* C10: BRK fetched from p, then RTI on the stack BRK left: PC = p + 2, SP
\* and C, Z, I, D, V, N are as before the BRK, B = 0 and R = 1.
C10_BrkRtiRoundTrip ==
    Dispatched("BRK") =>
        LET p == pre.cpu
            after == exec_RTI(Machine(cpu, ram)).cpu
        IN  /\ after.pc = (p.pc + 2) % 65536
            /\ after.sp = p.sp
            /\ after.flags.c = p.flags.c /\ after.flags.z = p.flags.z
            /\ after.flags.i = p.flags.i /\ after.flags.d = p.flags.d
            /\ after.flags.v = p.flags.v /\ after.flags.n = p.flags.n
            /\ ~after.flags.b
            /\ after.flags.r

\* C11: RTI reads the status byte at 0x0100+(SP+1), then PC low at
\* 0x0100+(SP+2), then PC high at 0x0100+(SP+3) (mod 256); C, Z, I, D, V, N
\* are the bits 0, 1, 2, 3, 6, 7 of the status byte, B is false and R true;
\* SP is up by 3 mod 256; PC is exactly low + 256 * high.
C11_RtiPulls ==
    Dispatched("RTI") =>
        LET p == pre.cpu
            status == ram_cell(pre.ram, StackSlot(p.sp, 1))
            lo == ram_cell(pre.ram, StackSlot(p.sp, 2))
            hi == ram_cell(pre.ram, StackSlot(p.sp, 3))
        IN  /\ log = << <<"r", p.pc, 64>>,
                        <<"r", StackSlot(p.sp, 1), status>>,
                        <<"r", StackSlot(p.sp, 2), lo>>,
                        <<"r", StackSlot(p.sp, 3), hi>> >>
            /\ cpu.flags = [c |-> (status \div 1) % 2 = 1, z |-> (status \div 2) % 2 = 1,
                            i |-> (status \div 4) % 2 = 1, d |-> (status \div 8) % 2 = 1,
                            b |-> FALSE, r |-> TRUE,
                            v |-> (status \div 64) % 2 = 1, n |-> (status \div 128) % 2 = 1]
            /\ cpu.sp = (p.sp + 3) % 256
            /\ cpu.pc = lo + 256 * hi
            /\ ram = pre.ram

\* an RTI whose pulls wrap from 0x01FF to 0x0100, pulling status 0xDF (bit 4
\* set, bit 5 clear) and the address 0x12FF into a processor with no flag set
C11_Witness ==
    /\ Dispatched("RTI")
    /\ pre.cpu.sp = 254
    /\ ram_cell(pre.ram, 511) = 223
    /\ pre.cpu.flags = StatusFlag_default
    /\ cpu.pc = 4863

\* C12: JSR fetched from p (with p + 3 an address) writes the high byte of
\* p + 2 at 0x0100+SP, then its low byte at 0x0100+(SP-1) (mod 256), and sets
\* PC to its operand; the RTS dispatched next reads low then high, puts SP
\* back to its value before the JSR and sets PC = p + 3.  An RTS reads low at
\* 0x0100+(SP+1), then high at 0x0100+(SP+2), and sets PC to that address + 1.
C12_JsrRts ==
    /\ (Dispatched("JSR") /\ pre.cpu.pc + 3 < 65536) =>
        LET p == pre.cpu
            lo == ram_cell(pre.ram, p.pc + 1)
            hi == ram_cell(pre.ram, p.pc + 2)
            s1 == 256 + p.sp
            s2 == 256 + ((p.sp + 255) % 256)
        IN  /\ log = << <<"r", p.pc, 32>>, <<"r", p.pc + 1, lo>>, <<"r", p.pc + 2, hi>>,
                        <<"w", s1, (p.pc + 2) \div 256>>, <<"w", s2, (p.pc + 2) % 256>> >>
            /\ cpu.pc = lo + 256 * hi
            /\ cpu.sp = (p.sp + 254) % 256
            /\ ram_cell(ram, cpu.pc) = 96 =>
                \A checked \in BOOLEAN :
                    LET after == step(Machine([cpu EXCEPT !.remain_cycles = 0], ram), checked)
                    IN  /\ ~after.panic
                        /\ after.log = << <<"r", cpu.pc, 96>>,
                                          <<"r", s2, (p.pc + 2) % 256>>,
                                          <<"r", s1, (p.pc + 2) \div 256>> >>
                        /\ after.cpu.sp = p.sp
                        /\ after.cpu.pc = p.pc + 3
    /\ Dispatched("RTS") =>
        LET p == pre.cpu
            lo == ram_cell(pre.ram, StackSlot(p.sp, 1))
            hi == ram_cell(pre.ram, StackSlot(p.sp, 2))
        IN  /\ log = << <<"r", p.pc, 96>>,
                        <<"r", StackSlot(p.sp, 1), lo>>,
                        <<"r", StackSlot(p.sp, 2), hi>> >>
            /\ cpu.sp = (p.sp + 2) % 256
            /\ cpu.pc = (lo + 256 * hi + 1) % 65536

\* the RTS that follows a JSR fetched from 0x10FE with SP = 0x00: the pushes
\* wrapped (high byte 0x11 at 0x0100, low byte 0x00 at 0x01FF) and the RTS,
\* dispatched by the 7th step call, returns to 0x1101 with SP = 0x00 again
C12_Witness ==
    /\ Dispatched("RTS")
    /\ nsteps = 7
    /\ ram_cell(ram, 4350) = 32
    /\ ram_cell(ram, 256) = 17 /\ ram_cell(ram, 511) = 0
    /\ cpu.pc = 4353
    /\ cpu.sp = 0

\* C13: PHP writes P with bits 4 and 5 set at 0x0100+SP and leaves the flags
\* as they were; the PLP dispatched next puts SP back and gives C, Z, I, D,
\* V, N the values they had before the PHP, with B false and R true.  A PLP
\* takes C, Z, I, D, V, N from the byte it pulls, whatever its bits 4 and 5.
C13_PhpPlp ==
    /\ Dispatched("PHP") =>
        LET p == pre.cpu
            f == p.flags
            pushed == B2N(f.c) + 2 * B2N(f.z) + 4 * B2N(f.i) + 8 * B2N(f.d)
                      + 16 + 32 + 64 * B2N(f.v) + 128 * B2N(f.n)
        IN  /\ log = << <<"r", p.pc, 8>>, <<"w", 256 + p.sp, pushed>> >>
            /\ cpu.flags = f
            /\ cpu.sp = (p.sp + 255) % 256
            /\ ram_cell(ram, cpu.pc) = 40 =>
                \A checked \in BOOLEAN :
                    LET after == step(Machine([cpu EXCEPT !.remain_cycles = 0], ram), checked)
                    IN  /\ ~after.panic
                        /\ after.cpu.sp = p.sp
                        /\ after.cpu.flags = [f EXCEPT !.b = FALSE, !.r = TRUE]
    /\ Dispatched("PLP") =>
        LET p == pre.cpu
            byte == ram_cell(pre.ram, StackSlot(p.sp, 1))
        IN  /\ log = << <<"r", p.pc, 40>>, <<"r", StackSlot(p.sp, 1), byte>> >>
            /\ cpu.sp = (p.sp + 1) % 256
            /\ cpu.flags = [c |-> byte % 2 = 1, z |-> (byte \div 2) % 2 = 1,
                            i |-> (byte \div 4) % 2 = 1, d |-> (byte \div 8) % 2 = 1,
                            b |-> FALSE, r |-> TRUE,
                            v |-> (byte \div 64) % 2 = 1, n |-> (byte \div 128) % 2 = 1]

\* the PLP that follows a PHP made with every flag set, B too, and SP = 0x00:
\* the byte 0xFF sits at 0x0100, and the PLP, dispatched by the 4th step call,
\* leaves SP = 0x00 and every flag set except B
C13_Witness ==
    /\ Dispatched("PLP")
    /\ nsteps = 4
    /\ ram_cell(ram, 32768) = 8
    /\ ram_cell(ram, 256) = 255
    /\ cpu.sp = 0
    /\ cpu.flags = [StatusFlag_all EXCEPT !.b = FALSE]

\* the number of pushes of the stack program in r
Pushes(r) ==
    CHOOSE k \in 0..256 :
        /\ \A j \in 0..(k - 1) : ram_cell(r, StackBase + 3 + 3 * j) = 169
        /\ ram_cell(r, StackBase + 3 + 3 * k) # 169

\* C14: SP is always in 0x00..0xFF.  A push (PHA) writes at 0x0100+SP and
\* then decrements SP mod 256; a pull (PLA) increments SP mod 256 and then
\* reads at 0x0100+SP; both touch the stack only inside 0x0100..0x01FF.  In a
\* run of k <= 256 pushes followed by k pulls the j-th pull returns the byte
\* of the (k-j+1)-th push, and the k-th pull leaves SP as it was before the
\* first push.
C14_StackDiscipline ==
    /\ cpu.sp \in 0..255
    /\ Dispatched("PHA") =>
        /\ log = << <<"r", pre.cpu.pc, 72>>, <<"w", 256 + pre.cpu.sp, pre.cpu.a>> >>
        /\ log[2][2] \in 256..511
        /\ cpu.sp = (IF pre.cpu.sp = 0 THEN 255 ELSE pre.cpu.sp - 1)
    /\ Dispatched("PLA") =>
        /\ cpu.sp = (IF pre.cpu.sp = 255 THEN 0 ELSE pre.cpu.sp + 1)
        /\ log = << <<"r", pre.cpu.pc, 104>>,
                    <<"r", 256 + cpu.sp, ram_cell(pre.ram, 256 + cpu.sp)>> >>
        /\ log[2][2] \in 256..511
        /\ cpu.a = log[2][3]
    /\ (Dispatched("PLA") /\ ram_cell(ram, StackBase) = 162
            /\ ram_cell(ram, StackBase + 2) = 154) =>
        LET k == Pushes(ram)
            j == pre.cpu.pc - (StackBase + 3 + 3 * k) + 1
        IN  (1 <= j /\ j <= k) =>
                /\ cpu.a = ram_cell(ram, StackBase + 3 + 3 * (k - j) + 1)
                /\ cpu.a = PushByte(k - j + 1)
                /\ (j = k) => cpu.sp = ram_cell(ram, StackBase + 1)

\* the 256th pull of the run that starts with SP = 0x01 and makes 256 pushes:
\* it returns the byte of the first push and leaves SP = 0x01; the pushes
\* wrapped from 0x0100 to 0x01FF and filled the whole page
C14_Witness ==
    /\ Dispatched("PLA")
    /\ ram_cell(ram, StackBase + 1) = 1
    /\ Pushes(ram) = 256
    /\ pre.cpu.pc = StackBase + 3 + 3 * 256 + 255
    /\ cpu.a = PushByte(1)
    /\ cpu.sp = 1
    /\ \A a \in 256..511 : ram_cell(ram, a) = PushByte(((257 - (a - 256)) % 256) + 1)

\* C15: JMP indirect with operand bytes LL, HH reads the low byte of the
\* target at HHLL and the high byte at HH00 + ((LL + 1) mod 256), in that
\* order, and sets PC to low + 256 * high; registers, flags, SP and memory
\* are unchanged.
C15_JmpIndirectWrapsInPage ==
    (Dispatched("JMP") /\ ram_cell(pre.ram, pre.cpu.pc) = 108) =>
        LET p == pre.cpu
            ll == ram_cell(pre.ram, (p.pc + 1) % 65536)
            hh == ram_cell(pre.ram, (p.pc + 2) % 65536)
            a1 == 256 * hh + ll
            a2 == 256 * hh + ((ll + 1) % 256)
            lo == ram_cell(pre.ram, a1)
            hi == ram_cell(pre.ram, a2)
        IN  /\ log = << <<"r", p.pc, 108>>,
                        <<"r", (p.pc + 1) % 65536, ll>>,
                        <<"r", (p.pc + 2) % 65536, hh>>,
                        <<"r", a1, lo>>, <<"r", a2, hi>> >>
            /\ cpu.pc = lo + 256 * hi
            /\ cpu.a = p.a /\ cpu.x = p.x /\ cpu.y = p.y /\ cpu.sp = p.sp
            /\ cpu.flags = p.flags
            /\ ram = pre.ram

\* program 6C FF 02 with 0x34 at 0x02FF, 0x12 at 0x0200 and 0x56 at 0x0300:
\* PC becomes 0x1234
C15_Witness ==
    /\ Dispatched("JMP")
    /\ pre.cpu.pc = 32768
    /\ ram_cell(ram, 32768) = 108 /\ ram_cell(ram, 32769) = 255 /\ ram_cell(ram, 32770) = 2
    /\ ram_cell(ram, 767) = 52 /\ ram_cell(ram, 512) = 18 /\ ram_cell(ram, 768) = 86
    /\ cpu.pc = 4660

\* the documented cycle counts of the opcodes the claim lists
ListedCycles ==
    [opcode \in {169, 165, 173, 141, 76, 108, 32, 96, 64, 0, 72, 8, 104, 40,
                 234, 24, 216, 88, 184, 56, 248, 120} |->
        CASE opcode = 169 -> 2
          [] opcode = 165 -> 3
          [] opcode \in {173, 141} -> 4
          [] opcode = 76 -> 3
          [] opcode = 108 -> 5
          [] opcode \in {32, 96, 64} -> 6
          [] opcode = 0 -> 7
          [] opcode \in {72, 8} -> 3
          [] opcode \in {104, 40} -> 4
          [] OTHER -> 2]

\* C16: an instruction dispatched from remain_cycles = 0 leaves remain_cycles,
\* before the decrement that ends the step call, equal to its documented
\* cycle count: LDA immediate 2, LDA zero-page 3, LDA absolute 4, STA
\* absolute 4, JMP absolute 3, JMP indirect 5, JSR 6, RTS 6, RTI 6, BRK 7,
\* PHA/PHP 3, PLA/PLP 4, NOP and the flag instructions 2.
C16_DocumentedCycles ==
    (/\ call.op = "step"
     /\ pre.cpu.remain_cycles = 0
     /\ ~panicked
     /\ ram_cell(pre.ram, pre.cpu.pc) \in DOMAIN ListedCycles) =>
        cpu.remain_cycles + 1 = ListedCycles[ram_cell(pre.ram, pre.cpu.pc)]

\* the instruction and the addressing mode the last call dispatched
DispatchedOp == OPCODES[ram_cell(pre.ram, pre.cpu.pc) + 1]

\* the last call was a step that dispatched an instruction without panicking
DispatchedAny ==
    /\ call.op = "step"
    /\ pre.cpu.remain_cycles = 0
    /\ ~panicked

\* C17: right after an instruction that writes A (LDA, LAX, TXA, TYA, PLA,
\* AND, EOR, ORA, ADC, SBC, accumulator ASL/LSR/ROL/ROR), X (LDX, LAX, TAX,
\* TSX, INX, DEX) or Y (LDY, TAY, INY, DEY), Z is true iff the register is 0
\* and N is bit 7 of the register.
C17_ZeroNegativeFollowWrite ==
    DispatchedAny =>
        LET ins == DispatchedOp[1]
            mode == DispatchedOp[2]
        IN  /\ (\/ ins \in {"LDA", "LAX", "TXA", "TYA", "PLA", "AND", "EOR", "ORA",
                            "ADC", "SBC"}
                \/ (ins \in {"ASL", "LSR", "ROL", "ROR"} /\ mode = "Accumulator")) =>
                    /\ cpu.flags.z = (cpu.a = 0)
                    /\ cpu.flags.n = (cpu.a >= 128)
            /\ ins \in {"LDX", "LAX", "TAX", "TSX", "INX", "DEX"} =>
                    /\ cpu.flags.z = (cpu.x = 0)
                    /\ cpu.flags.n = (cpu.x >= 128)
            /\ ins \in {"LDY", "TAY", "INY", "DEY"} =>
                    /\ cpu.flags.z = (cpu.y = 0)
                    /\ cpu.flags.n = (cpu.y >= 128)

\* LDA #$40 into a processor with Z and N set: both end clear although bit 6
\* of the value is set
C17_Witness ==
    /\ Dispatched("LDA")
    /\ pre.cpu.flags.z /\ pre.cpu.flags.n
    /\ cpu.a = 64
    /\ ~cpu.flags.z /\ ~cpu.flags.n

\* C18: ADC with accumulator A, operand M and carry-in c gives
\* A' = (A + M + c) mod 256, C' = (A + M + c > 255), V' = (the sign of A'
\* differs from the sign of A and from the sign of M), Z' = (A' = 0),
\* N' = bit 7 of A', whatever the D flag; D and I are unchanged.
C18_AdcArithmetic ==
    Dispatched("ADC") =>
        LET a == pre.cpu.a
            mm == log[Len(log)][3]
            c == B2N(pre.cpu.flags.c)
            sum == a + mm + c
            res == sum % 256
        IN  /\ cpu.a = res
            /\ cpu.flags.c = (sum > 255)
            /\ cpu.flags.v = (((res >= 128) # (a >= 128)) /\ ((res >= 128) # (mm >= 128)))
            /\ cpu.flags.z = (res = 0)
            /\ cpu.flags.n = (res >= 128)
            /\ cpu.flags.d = pre.cpu.flags.d
            /\ cpu.flags.i = pre.cpu.flags.i

\* 0x50 + 0x50 with carry clear and D set: A = 0xA0, V and N set, C clear
C18_Witness ==
    /\ Dispatched("ADC")
    /\ pre.cpu.a = 80 /\ ram_cell(ram, 32769) = 80
    /\ ~pre.cpu.flags.c /\ pre.cpu.flags.d
    /\ cpu.a = 160 /\ cpu.flags.v /\ cpu.flags.n /\ ~cpu.flags.c /\ ~cpu.flags.z

\* C19: SBC with accumulator A, operand M and carry-in c gives
\* A' = (A - M - (1 - c)) mod 256 and C' = (A >= M + (1 - c)), and its A, C,
\* V, Z and N are those of ADC run from the same A and c with the operand
\* M xor 0xFF.
C19_SbcIsAdcOfComplement ==
    Dispatched("SBC") =>
        LET a == pre.cpu.a
            mm == log[Len(log)][3]
            c == B2N(pre.cpu.flags.c)
            res == (a - mm - (1 - c) + 512) % 256
            adc == step(Machine(pre.cpu,
                                Load(pre.ram, pre.cpu.pc, <<105, BitXor(mm, 255)>>)),
                        FALSE).cpu
        IN  /\ cpu.a = res
            /\ cpu.flags.c = (a >= mm + (1 - c))
            /\ cpu.a = adc.a
            /\ cpu.flags.c = adc.flags.c
            /\ cpu.flags.v = adc.flags.v
            /\ cpu.flags.z = adc.flags.z
            /\ cpu.flags.n = adc.flags.n
            /\ cpu.flags.z = (res = 0)
            /\ cpu.flags.n = (res >= 128)

\* 0xD0 - 0x70 with carry set: A = 0x60, V and C set
C19_Witness ==
    /\ Dispatched("SBC")
    /\ pre.cpu.a = 208 /\ ram_cell(ram, 32769) = 112 /\ pre.cpu.flags.c
    /\ cpu.a = 96 /\ cpu.flags.v /\ cpu.flags.c /\ ~cpu.flags.n

\* the register a compare instruction reads
CompareRegister(c) ==
    IF Dispatched("CMP") THEN c.a ELSE IF Dispatched("CPX") THEN c.x ELSE c.y

\* C20: CMP, CPX and CPY with register value R and operand M set
\* C = (R >= M), Z = (R = M), N = bit 7 of (R - M) mod 256 and leave A, X, Y,
\* SP, the flags V, I, D, B and memory as they were.
C20_CompareSetsOnlyCZN ==
    (Dispatched("CMP") \/ Dispatched("CPX") \/ Dispatched("CPY")) =>
        LET r == CompareRegister(pre.cpu)
            mm == log[Len(log)][3]
        IN  /\ cpu.flags.c = (r >= mm)
            /\ cpu.flags.z = (r = mm)
            /\ cpu.flags.n = (((r - mm + 256) % 256) >= 128)
            /\ cpu.a = pre.cpu.a /\ cpu.x = pre.cpu.x /\ cpu.y = pre.cpu.y
            /\ cpu.sp = pre.cpu.sp
            /\ cpu.flags.v = pre.cpu.flags.v /\ cpu.flags.i = pre.cpu.flags.i
            /\ cpu.flags.d = pre.cpu.flags.d /\ cpu.flags.b = pre.cpu.flags.b
            /\ ram = pre.ram

\* CPX with X = 0x10 and the zero page operand 0x80: C clear, N set (0x90),
\* from flags all set, V, I, D, B still set
C20_Witness ==
    /\ Dispatched("CPX")
    /\ pre.cpu.x = 16 /\ ram_cell(ram, 16) = 128 /\ ram_cell(ram, 32768) = 228
    /\ pre.cpu.flags.c /\ pre.cpu.flags.z
    /\ ~cpu.flags.c /\ ~cpu.flags.z /\ cpu.flags.n
    /\ cpu.flags.v /\ cpu.flags.i /\ cpu.flags.d /\ cpu.flags.b
    /\ cpu.a = 17 /\ cpu.y = 51 /\ cpu.sp = 253

\* the branch instructions
Branches == {"BCC", "BCS", "BNE", "BEQ", "BPL", "BMI", "BVC", "BVS"}

\* C21: a branch is taken iff its tested flag has the tested value (BCC: C=0,
\* BCS: C=1, BNE: Z=0, BEQ: Z=1, BPL: N=0, BMI: N=1, BVC: V=0, BVS: V=1);
\* taken, PC is the address after the operand byte plus the sign-extended
\* offset, mod 65536; not taken, PC is the address after the operand byte;
\* A, X, Y, SP, the flags and memory are unchanged either way.
C21_BranchOnFlag ==
    \A ins \in Branches :
        Dispatched(ins) =>
            LET f == pre.cpu.flags
                taken == CASE ins = "BCC" -> ~f.c
                           [] ins = "BCS" -> f.c
                           [] ins = "BNE" -> ~f.z
                           [] ins = "BEQ" -> f.z
                           [] ins = "BPL" -> ~f.n
                           [] ins = "BMI" -> f.n
                           [] ins = "BVC" -> ~f.v
                           [] ins = "BVS" -> f.v
                offset == ram_cell(pre.ram, (pre.cpu.pc + 1) % 65536)
                next == (pre.cpu.pc + 2) % 65536
                signed == IF offset >= 128 THEN offset - 256 ELSE offset
            IN  /\ cpu.pc = IF taken THEN (next + signed + 65536) % 65536 ELSE next
                /\ cpu.a = pre.cpu.a /\ cpu.x = pre.cpu.x /\ cpu.y = pre.cpu.y
                /\ cpu.sp = pre.cpu.sp
                /\ cpu.flags = pre.cpu.flags
                /\ ram = pre.ram

\* BEQ at 0x0000 with offset 0x80 and Z set: taken backwards past address 0,
\* PC = 0xFF82
C21_Witness ==
    /\ Dispatched("BEQ")
    /\ pre.cpu.pc = 0 /\ ram_cell(ram, 1) = 128 /\ pre.cpu.flags.z
    /\ cpu.pc = 65410

\* the last call was a step entered with remain_cycles = 0 that fetched an
\* opcode byte without a dispatch entry
FetchedUndefined ==
    /\ call.op = "step"
    /\ pre.cpu.remain_cycles = 0
    /\ OPCODES[ram_cell(pre.ram, pre.cpu.pc) + 1] = None

\* C22: a step that fetches an opcode byte without a dispatch entry ends the
\* program with a panic: the only bus access is the opcode fetch (no handler
\* runs), A, X, Y, SP, the flags, total_cycles and memory are as before the
\* call, and no call is made after it.
C22_UndefinedOpcodeIsFatal ==
    /\ [](FetchedUndefined =>
            /\ panicked
            /\ log = <<<<"r", pre.cpu.pc, ram_cell(pre.ram, pre.cpu.pc)>>>>
            /\ cpu.a = pre.cpu.a /\ cpu.x = pre.cpu.x /\ cpu.y = pre.cpu.y
            /\ cpu.sp = pre.cpu.sp
            /\ cpu.flags = pre.cpu.flags
            /\ cpu.total_cycles = pre.cpu.total_cycles
            /\ ram = pre.ram)
    /\ [][~panicked]_vars

\* opcode 0x02 fetched at 0x8001 after a NOP that charged 2 cycles
C22_Witness ==
    /\ FetchedUndefined
    /\ panicked
    /\ pre.cpu.pc = 32769 /\ ram_cell(ram, 32769) = 2
    /\ pre.cpu.total_cycles = 2 /\ pre.cpu.flags.d /\ pre.cpu.a = 17

\* the status bytes the last call wrote to the stack: the third push of an
\* interrupt that was not masked, the third push of BRK, the push of PHP
StatusPushes ==
    IF call.op = "interrupt" /\ call.kind # "Reset" /\ Len(log) = 5
    THEN {log[3]}
    ELSE IF Dispatched("BRK") THEN {log[4]}
    ELSE IF Dispatched("PHP") THEN {log[2]}
    ELSE {}

\* C23: in every state reached from the factory state by reset, step and
\* interrupt calls the R flag is true, and every status byte the CPU writes
\* to the stack (PHP, BRK, interrupt with NMI / IRQ / BRK) has bit 5 set.
C23_ReservedFlagAlwaysSet ==
    /\ cpu.flags.r
    /\ \A e \in StatusPushes :
        /\ e[1] = "w"
        /\ e[2] \in 256..511
        /\ (e[3] \div 32) % 2 = 1

\* PHP pushes 0x30 after PLP has unpacked the byte 0x00 pulled from 0x0101
C23_Witness ==
    /\ Dispatched("PHP")
    /\ ram_cell(pre.ram, 0) = 40
    /\ pre.cpu.sp = 1 /\ pre.cpu.pc = 1
    /\ StatusPushes = {<<"w", 257, 48>>}
    /\ cpu.flags.r

\* bit i of a byte
BitOf(byte, i) == (byte \div (2 ^ i)) % 2 = 1

\* C24: the packed status byte has C at bit 0, Z at 1, I at 2, D at 3, B at
\* 4, R at 5, V at 6, N at 7: get_as_u8 returns that byte, set_as_u8(b)
\* gives each flag but R its bit of b, and get_as_u8 after set_as_u8(b)
\* returns b with bit 5 forced to 1.
C24_StatusByteLayout ==
    /\ call.op = "get_as_u8" =>
        /\ call.kind \in 0..255
        /\ BitOf(call.kind, 0) = cpu.flags.c
        /\ BitOf(call.kind, 1) = cpu.flags.z
        /\ BitOf(call.kind, 2) = cpu.flags.i
        /\ BitOf(call.kind, 3) = cpu.flags.d
        /\ BitOf(call.kind, 4) = cpu.flags.b
        /\ BitOf(call.kind, 5) = cpu.flags.r
        /\ BitOf(call.kind, 6) = cpu.flags.v
        /\ BitOf(call.kind, 7) = cpu.flags.n
    /\ call.op = "set_as_u8" =>
        LET b == call.kind
        IN  /\ cpu.flags.c = BitOf(b, 0)
            /\ cpu.flags.z = BitOf(b, 1)
            /\ cpu.flags.i = BitOf(b, 2)
            /\ cpu.flags.d = BitOf(b, 3)
            /\ cpu.flags.b = BitOf(b, 4)
            /\ cpu.flags.v = BitOf(b, 6)
            /\ cpu.flags.n = BitOf(b, 7)
            /\ get_as_u8(cpu.flags) = IF BitOf(b, 5) THEN b ELSE b + 32

\* set_as_u8(0b01010101) on a StatusFlag whose r was false, as the tests do:
\* the byte packed afterwards is 0b01110101
C24_Witness ==
    /\ call.op = "set_as_u8"
    /\ call.kind = 85
    /\ ~pre.cpu.flags.r
    /\ get_as_u8(cpu.flags) = 117
    /\ cpu.flags = [c |-> TRUE, z |-> FALSE, i |-> TRUE, d |-> FALSE,
                    b |-> TRUE, r |-> TRUE, v |-> TRUE, n |-> FALSE]

C26_FactoryPowerOnValues ==
    call.op = "new" =>
        /\ cpu.a = 0 /\ cpu.x = 0 /\ cpu.y = 0
        /\ cpu.sp = 255
        /\ get_as_u8(cpu.flags) = 36

\* the last call was a step entered with remain_cycles = 0 that fetched opcode
FetchedOpcode(opcode) ==
    /\ call.op = "step"
    /\ pre.cpu.remain_cycles = 0
    /\ ram_cell(pre.ram, pre.cpu.pc) = opcode

\* C27: address arithmetic in control transfers wraps and never aborts: an
\* RTS that pulls the address 0xFFFF completes with PC = 0x0000, and a JSR
\* whose operand ends at 0xFFFF (PC is 0x0000 after the operand fetch)
\* completes having pushed 0xFF, 0xFF, with PC at its target.
C27_ControlTransferWraps ==
    /\ (/\ FetchedOpcode(96)
        /\ ram_cell(pre.ram, StackSlot(pre.cpu.sp, 1)) = 255
        /\ ram_cell(pre.ram, StackSlot(pre.cpu.sp, 2)) = 255)
       => (~panicked /\ cpu.pc = 0)
    /\ (FetchedOpcode(32) /\ pre.cpu.pc = 65533)
       => /\ ~panicked
          /\ Len(log) = 5
          /\ log[4] = <<"w", StackSlot(pre.cpu.sp, 0), 255>>
          /\ log[5] = <<"w", StackSlot(pre.cpu.sp, 255), 255>>
          /\ cpu.pc = ram_cell(pre.ram, 65534) + 256 * ram_cell(pre.ram, 65535)

\* the 16-bit operand of the instruction the last call dispatched
OperandWord ==
    ram_cell(pre.ram, (pre.cpu.pc + 1) % 65536)
    + 256 * ram_cell(pre.ram, (pre.cpu.pc + 2) % 65536)

\* C28: an operand read in AbsoluteX or AbsoluteY mode reads the address
\* (HHLL + index) mod 65536 and the mode charges 3 cycles, plus exactly one
\* when the high byte of that address differs from HH, wherever PC is.
C28_AbsoluteIndexedPageCross ==
    (/\ DispatchedAny
     /\ DispatchedOp[1] \in {"LDA", "LDX", "LDY"}
     /\ DispatchedOp[2] \in {"AbsoluteX", "AbsoluteY"}) =>
        LET index == IF DispatchedOp[2] = "AbsoluteX" THEN pre.cpu.x ELSE pre.cpu.y
            addr == (OperandWord + index) % 65536
            crossed == (addr \div 256) # (OperandWord \div 256)
        IN  /\ log[Len(log)] = <<"r", addr, ram_cell(pre.ram, addr)>>
            /\ cpu.remain_cycles + 1 = 1 + 3 + (IF crossed THEN 1 ELSE 0)

\* C29: an operand read in IndirectIndexed mode with operand LL reads the
\* address (mem[LL] + 256 * mem[(LL + 1) mod 256] + Y) mod 65536, and the
\* mode charges 4 cycles when that address is in the page of the pointer
\* read from zero page and 5 when adding Y changed the high byte.
C29_IndirectIndexedPageCross ==
    (/\ DispatchedAny
     /\ DispatchedOp[1] \in {"ORA", "AND", "EOR", "ADC", "LDA", "LAX", "CMP", "SBC"}
     /\ DispatchedOp[2] = "IndirectIndexed") =>
        LET ll == ram_cell(pre.ram, (pre.cpu.pc + 1) % 65536)
            pointer == ram_cell(pre.ram, ll) + 256 * ram_cell(pre.ram, (ll + 1) % 256)
            addr == (pointer + pre.cpu.y) % 65536
            crossed == (addr \div 256) # (pointer \div 256)
        IN  /\ log[Len(log)] = <<"r", addr, ram_cell(pre.ram, addr)>>
            /\ DispatchedOp[1] = "LDA" => cpu.a = ram_cell(pre.ram, addr)
            /\ cpu.remain_cycles + 1 = 1 + (IF crossed THEN 5 ELSE 4)

\* LDA ($FF),Y with the pointer 0x80FF at 0x00FF / 0x0000 and Y = 1: reads
\* 0x8100 and charges 1 + 5 cycles, with the program in page 0x02
C29_Witness ==
    /\ DispatchedAny
    /\ pre.cpu.pc = 512
    /\ ram_cell(pre.ram, 512) = 177 /\ ram_cell(pre.ram, 513) = 255
    /\ ram_cell(pre.ram, 255) = 255 /\ ram_cell(pre.ram, 0) = 128
    /\ pre.cpu.y = 1
    /\ log[Len(log)] = <<"r", 33024, 66>>
    /\ cpu.a = 66
    /\ cpu.remain_cycles = 5

\* the address a store in an indexed mode writes, and whether adding the
\* index changed the high byte of the base
StoreBase ==
    IF DispatchedOp[2] = "IndirectIndexed"
    THEN LET ll == ram_cell(pre.ram, (pre.cpu.pc + 1) % 65536)
         IN  ram_cell(pre.ram, ll) + 256 * ram_cell(pre.ram, (ll + 1) % 256)
    ELSE OperandWord

StoreAddress ==
    (StoreBase + (IF DispatchedOp[2] = "AbsoluteX" THEN pre.cpu.x ELSE pre.cpu.y)) % 65536

StoreCrossed == (StoreAddress \div 256) # (StoreBase \div 256)

\* C30: STA in AbsoluteX, AbsoluteY and IndirectIndexed mode writes A to the
\* indexed address and charges a fixed number of cycles (opcode fetch
\* included: 4 in the absolute indexed modes, 5 in IndirectIndexed), the same
\* whether or not adding the index crossed a page boundary.
C30_StoreHasNoPageCrossPenalty ==
    (/\ DispatchedAny
     /\ DispatchedOp[1] = "STA"
     /\ DispatchedOp[2] \in {"AbsoluteX", "AbsoluteY", "IndirectIndexed"}) =>
        /\ log[Len(log)] = <<"w", StoreAddress, pre.cpu.a>>
        /\ ram_cell(ram, StoreAddress) = pre.cpu.a
        /\ cpu.remain_cycles + 1 = (IF DispatchedOp[2] = "IndirectIndexed" THEN 5 ELSE 4)

\* STA $80FF,X with X = 1 writes 0x8100, across a page boundary, and is
\* charged the 4 cycles of a store that stays in the page
C30_Witness ==
    /\ DispatchedAny
    /\ DispatchedOp[1] = "STA" /\ DispatchedOp[2] = "AbsoluteX"
    /\ OperandWord = 33023
    /\ pre.cpu.x = 1
    /\ StoreCrossed
    /\ log[Len(log)] = <<"w", 33024, 90>>
    /\ cpu.remain_cycles = 3

\* the operand byte LL of the instruction the last step dispatched
OperandByte == ram_cell(pre.ram, (pre.cpu.pc + 1) % 65536)

\* the address of the k-th bus access of the last call
AccessAddress(k) == log[k][2]

\* C31: the ZeroPageX / ZeroPageY effective address is (LL + index) mod 256;
\* IndexedIndirect reads its pointer from (LL + X) mod 256 and
\* (LL + X + 1) mod 256 and IndirectIndexed from LL and (LL + 1) mod 256: the
\* accesses stay in 0x0000..0x00FF and the address used is the pointer held
\* in those two cells.
C31_ZeroPageWraps ==
    (/\ DispatchedAny
     /\ DispatchedOp[2] \in {"ZeroPageX", "ZeroPageY", "IndexedIndirect", "IndirectIndexed"}) =>
        LET mode == DispatchedOp[2]
            ll == OperandByte
            zp == CASE mode = "ZeroPageX" -> (ll + pre.cpu.x) % 256
                    [] mode = "ZeroPageY" -> (ll + pre.cpu.y) % 256
                    [] mode = "IndexedIndirect" -> (ll + pre.cpu.x) % 256
                    [] mode = "IndirectIndexed" -> ll
            pointer == ram_cell(pre.ram, zp) + 256 * ram_cell(pre.ram, (zp + 1) % 256)
        IN  /\ Len(log) >= 3
            /\ AccessAddress(3) = zp
            /\ AccessAddress(3) \in 0..255
            /\ mode \in {"IndexedIndirect", "IndirectIndexed"} =>
                /\ Len(log) >= 5
                /\ log[3] = <<"r", zp, ram_cell(pre.ram, zp)>>
                /\ log[4] = <<"r", (zp + 1) % 256, ram_cell(pre.ram, (zp + 1) % 256)>>
                /\ AccessAddress(4) \in 0..255
                /\ AccessAddress(5) =
                      (pointer + (IF mode = "IndirectIndexed" THEN pre.cpu.y ELSE 0)) % 65536

\* LDA ($FF,X) with X = 0x80: the pointer is read from 0x007F and 0x0080,
\* not from 0x017F, and A is loaded from the address 0x1234 it holds
C31_Witness ==
    /\ DispatchedAny
    /\ DispatchedOp[1] = "LDA" /\ DispatchedOp[2] = "IndexedIndirect"
    /\ OperandByte = 255 /\ pre.cpu.x = 128
    /\ ram_cell(pre.ram, 383) = 119
    /\ log[3] = <<"r", 127, 52>> /\ log[4] = <<"r", 128, 18>>
    /\ log[5] = <<"r", 4660, 66>>
    /\ cpu.a = 66

\* whether the flags f make the branch ins jump
TakenOn(ins, f) ==
    CASE ins = "BCC" -> ~f.c
      [] ins = "BCS" -> f.c
      [] ins = "BNE" -> ~f.z
      [] ins = "BEQ" -> f.z
      [] ins = "BPL" -> ~f.n
      [] ins = "BMI" -> f.n
      [] ins = "BVC" -> ~f.v
      [] ins = "BVS" -> f.v

\* the address a taken branch dispatched by the last step jumps to
BranchTarget ==
    LET offset == OperandByte
    IN  (pre.cpu.pc + 2 + (IF offset >= 128 THEN offset - 256 ELSE offset) + 65536) % 65536

\* C32: a branch that is not taken charges 2 cycles, a taken branch 3, and a
\* taken branch whose target is in another page than the address following
\* the branch instruction 5.
C32_BranchCycles ==
    \A ins \in Branches :
        Dispatched(ins) =>
            LET next == (pre.cpu.pc + 2) % 65536
                charged == cpu.remain_cycles + 1
            IN  /\ ~TakenOn(ins, pre.cpu.flags) => charged = 2
                /\ (TakenOn(ins, pre.cpu.flags)
                    /\ BranchTarget \div 256 = next \div 256) => charged = 3
                /\ (TakenOn(ins, pre.cpu.flags)
                    /\ BranchTarget \div 256 # next \div 256) => charged = 5
                /\ cpu.total_cycles = pre.cpu.total_cycles + charged

\* BNE at 0x80F0 with offset 0x20 and Z clear: the target 0x8112 is in the
\* page after the one of 0x80F2, and the branch is charged 5 cycles
C32_Witness ==
    /\ Dispatched("BNE")
    /\ pre.cpu.pc = 33008 /\ OperandByte = 32 /\ ~pre.cpu.flags.z
    /\ cpu.pc = 33042
    /\ cpu.remain_cycles = 4
    /\ cpu.total_cycles = 5

\* the cycle count of a read-modify-write instruction on the hardware, by
\* addressing mode
RmwCycles(mode) ==
    CASE mode = "ZeroPage" -> 5
      [] mode = "ZeroPageX" -> 6
      [] mode = "Absolute" -> 6
      [] mode = "AbsoluteX" -> 7
      [] mode = "AbsoluteY" -> 7
      [] mode = "IndexedIndirect" -> 8
      [] mode = "IndirectIndexed" -> 8

\* C33: ASL, LSR, ROL, ROR, INC, DEC and DCP on memory charge 5 cycles in
\* ZeroPage mode, 6 in ZeroPageX, 6 in Absolute, 7 in AbsoluteX and, for DCP,
\* 7 in AbsoluteY, 8 in IndexedIndirect and 8 in IndirectIndexed, whether or
\* not indexing crosses a page.
C33_RmwCycles ==
    (/\ DispatchedAny
     /\ DispatchedOp[1] \in {"ASL", "LSR", "ROL", "ROR", "INC", "DEC", "DCP"}
     /\ DispatchedOp[2] # "Accumulator") =>
        cpu.remain_cycles + 1 = RmwCycles(DispatchedOp[2])

\* the machines the last call can have ended in: the call run again from the
\* state it began in, kept when it made the accesses and produced the state
\* that the call did
LastCall ==
    {m \in {step(Machine(pre.cpu, pre.ram), checked) : checked \in BOOLEAN}
           \cup {reset(Machine(pre.cpu, pre.ram))}
           \cup {interrupt(Machine(pre.cpu, pre.ram), kind) : kind \in InterruptKinds} :
        /\ call.op = "step" => \E checked \in BOOLEAN :
                                    m = step(Machine(pre.cpu, pre.ram), checked)
        /\ call.op = "reset" => m = reset(Machine(pre.cpu, pre.ram))
        /\ call.op = "interrupt" => m = interrupt(Machine(pre.cpu, pre.ram), call.kind)
        /\ call.op \in {"step", "reset", "interrupt"}
        /\ m.log = log /\ m.cpu = cpu /\ m.ram = ram /\ m.panic = panicked}

\* C34: every bus read and write made by a step, reset or interrupt call is
\* made together with its own increment of remain_cycles by 1: the accesses
\* that were charged are all the accesses of the call, each once and in
\* order.
C34_EveryAccessIsCharged ==
    \A m \in LastCall : m.paid = [k \in 1..Len(log) |-> k]

\* C35: total_cycles never decreases: a step that dispatches an instruction
\* adds the cycles the instruction charged, every other call leaves it
\* unchanged; and in a run made only of step calls from remain_cycles = 0 and
\* total_cycles = 0, total_cycles is the number of step calls made whenever
\* remain_cycles = 0.
C35_TotalCyclesCountsSteps ==
    /\ []((nevents = 0 /\ cpu.remain_cycles = 0 /\ ~panicked) =>
            cpu.total_cycles = nsteps)
    /\ [][/\ cpu'.total_cycles >= cpu.total_cycles
          /\ (call'.op = "step" /\ cpu.remain_cycles = 0 /\ ~panicked') =>
                cpu'.total_cycles = cpu.total_cycles + cpu'.remain_cycles + 1
          /\ (call'.op = "step" /\ cpu.remain_cycles > 0) =>
                cpu'.total_cycles = cpu.total_cycles
          /\ call'.op \in {"reset", "interrupt"} =>
                cpu'.total_cycles = cpu.total_cycles]_vars

\* SED and LDA #$80 run by four step calls: total_cycles = 4 at the boundary
\* before BRK
C35_Witness ==
    /\ call.op = "step" /\ nevents = 0 /\ nsteps = 4
    /\ ram = Image_flags
    /\ cpu.a = 128 /\ cpu.flags.d
    /\ cpu.remain_cycles = 0
    /\ cpu.total_cycles = 4

\* the instruction boundaries of the program of Image_s1 (LDX #, LDA zp,X,
\* STA zp, LDY abs: 2, 4, 3 and 4 cycles): the budget that ends at the
\* boundary, PC there and the cycles of the instructions before it
S1Boundaries ==
    { [budget |-> 2, pc |-> 32768, cycles |-> 0],
      [budget |-> 4, pc |-> 32770, cycles |-> 2],
      [budget |-> 8, pc |-> 32772, cycles |-> 6],
      [budget |-> 11, pc |-> 32774, cycles |-> 9],
      [budget |-> 15, pc |-> 32777, cycles |-> 13] }

\* C36: execute(n) with n = 2 + the cycles of the first k instructions of the
\* program, called on a processor that owes no cycles, ends at the boundary
\* after the k-th instruction: remain_cycles = 0, PC is the address of
\* instruction k + 1 and total_cycles has grown by the cycles of the k
\* instructions.
C36_BudgetIsExact ==
    \A b \in S1Boundaries :
        (/\ call.op = "execute" /\ call.kind = b.budget
         /\ \E byte \in 0..255 : pre.ram = Image_s1(byte)
         /\ pre.cpu.remain_cycles = 0) =>
            /\ ~panicked
            /\ cpu.remain_cycles = 0
            /\ cpu.pc = b.pc
            /\ cpu.total_cycles = pre.cpu.total_cycles + b.cycles

\* C37: the B flag of the processor is false in every state reached from
\* CPU::default() by reset, step and interrupt calls.
C37_BreakFlagNeverHeld ==
    ~cpu.flags.b

\* C38: every opcode with a dispatch entry charges at least 2 cycles, so
\* remain_cycles is at least 1 when step decrements it and is never driven
\* below 0, by step or by the subtractions in the JSR and RTI handlers.
C38_NoCycleUnderflow ==
    /\ cpu.remain_cycles >= 0
    /\ DispatchedAny =>
        /\ DispatchedOp # None
        /\ cpu.remain_cycles + 1 >= 2
        /\ cpu.total_cycles - pre.cpu.total_cycles >= 2
        /\ DispatchedOp[1] \in {"JSR", "RTI"} => cpu.remain_cycles + 1 = 6

\* SKB #$10 charges the opcode fetch and the operand fetch only: 2 cycles,
\* and remain_cycles is 1 after the step
C38_Witness ==
    /\ Dispatched("SKB")
    /\ pre.cpu.pc = 32768 /\ ram_cell(pre.ram, 32768) = 128
    /\ log = << <<"r", 32768, 128>>, <<"r", 32769, 16>> >>
    /\ cpu.remain_cycles = 1
    /\ cpu.total_cycles = 2

\* the cycles an interrupt call of this kind adds when it is not a masked IRQ
EntryCycles(kind) == IF kind = "Reset" THEN 2 ELSE 8

\* the step calls made since the last interrupt that was taken, when nothing
\* but step has been called since
StepsSinceEntry == nsteps - entry.nsteps

OnlyStepsSinceEntry == entry.valid /\ entry.nevents = nevents /\ call.op = "step"

\* the address held in the vector of the interrupt kind
Handler(kind) ==
    ram_cell(ram, interrupt_vector(kind)) + 256 * ram_cell(ram, interrupt_vector(kind) + 1)

\* C39: an interrupt call that is not a masked IRQ adds 8 to remain_cycles,
\* 2 when its kind is Reset, on top of what was there, and leaves
\* total_cycles unchanged; injected with remain_cycles = 0, the next 8 (2)
\* step calls access no memory and count remain_cycles down, and the 9th
\* (3rd) fetches the opcode at the handler's address.
C39_InterruptCycles ==
    /\ (call.op = "interrupt" /\ ~(call.kind = "IRQ" /\ pre.cpu.flags.i)) =>
            /\ cpu.remain_cycles = pre.cpu.remain_cycles + EntryCycles(call.kind)
            /\ cpu.total_cycles = pre.cpu.total_cycles
    /\ (OnlyStepsSinceEntry /\ entry.cpu.remain_cycles = 0
        /\ StepsSinceEntry <= EntryCycles(entry.kind)) =>
            /\ log = <<>>
            /\ ~panicked
            /\ cpu.remain_cycles = EntryCycles(entry.kind) - StepsSinceEntry
            /\ cpu.pc = Handler(entry.kind)
            /\ cpu.total_cycles = entry.cpu.total_cycles
    /\ (OnlyStepsSinceEntry /\ entry.cpu.remain_cycles = 0
        /\ StepsSinceEntry = EntryCycles(entry.kind) + 1) =>
            /\ Len(log) >= 1
            /\ log[1] = <<"r", Handler(entry.kind), ram_cell(pre.ram, Handler(entry.kind))>>

\* NMI injected after the first NOP: eight step calls drain and the ninth
\* fetches RTI at 0x9000
C39_Witness ==
    /\ OnlyStepsSinceEntry
    /\ entry.kind = "NMI" /\ entry.nsteps = 2
    /\ entry.cpu.remain_cycles = 0 /\ entry.cpu.pc = 32769
    /\ StepsSinceEntry = 9
    /\ log[1] = <<"r", 36864, 64>>
    /\ cpu.total_cycles = 2 + 6

\* the last call was a step that dispatched RTI with the stack pointer where
\* the last NMI or IRQ taken at an instruction boundary left it
ReturnsFromEntry ==
    /\ Dispatched("RTI")
    /\ entry.valid
    /\ entry.kind \in {"NMI", "IRQ"}
    /\ entry.cpu.remain_cycles = 0
    /\ pre.cpu.sp = (entry.cpu.sp + U8 - 3) % U8

\* C40: RTI executed with the stack pointer where an NMI, or an IRQ with I
\* clear, injected at an instruction boundary left it, restores the program
\* counter, the stack pointer and C, Z, I, D, V, N of the moment of the
\* interrupt, leaves B clear and R set, and A, X, Y are those of that moment.
C40_InterruptRtiRoundTrip ==
    ReturnsFromEntry =>
        /\ cpu.pc = entry.cpu.pc
        /\ cpu.sp = entry.cpu.sp
        /\ \A fl \in {"c", "z", "i", "d", "v", "n"} : cpu.flags[fl] = entry.cpu.flags[fl]
        /\ ~cpu.flags.b
        /\ cpu.flags.r
        /\ cpu.a = entry.cpu.a /\ cpu.x = entry.cpu.x /\ cpu.y = entry.cpu.y

\* IRQ taken after the first NOP with C, N and B set; the handler's SEC runs
\* and RTI returns to 0x8001 with C, N as before, I clear again and B clear
C40_Witness ==
    /\ ReturnsFromEntry
    /\ entry.kind = "IRQ"
    /\ entry.cpu.flags.b /\ entry.cpu.flags.c /\ entry.cpu.flags.n /\ ~entry.cpu.flags.i
    /\ entry.cpu.pc = 32769
    /\ cpu.pc = 32769 /\ cpu.sp = 253
    /\ cpu.flags.c /\ ~cpu.flags.i /\ ~cpu.flags.b
    /\ cpu.a = 17

====
